---- MODULE Spec2Model ----
(***************************************************************************)
(* Notebook Navigator Profiles (src/src/main.ts): the profile and backup   *)
(* lifecycle of the plugin, as a state machine.                            *)
(*                                                                         *)
(* Strings of the program (profile names, ids, file names) are sequences   *)
(* of one-character strings, so that trim, toLowerCase, slugify and the    *)
(* numeric suffixes are computed character by character as the code does.  *)
(* An async method is a sequence of steps: a step is the code that runs    *)
(* between two awaits; the awaited storage call completes (or fails) at    *)
(* the beginning of the step that follows it.                              *)
(***************************************************************************)
EXTENDS Integers, Sequences, FiniteSets, TLC

(***************************************************************************)
(* Bounds of the model.                                                    *)
(***************************************************************************)
MaxProfiles == 3
MaxClock == 1
MaxOps == 2
MaxStarts == 5
MaxFaults == 1
MaxEvents == 3

(***************************************************************************)
(* Characters and strings.                                                 *)
(***************************************************************************)
UpperChars == <<"A", "B", "C", "D", "E", "F", "G", "H", "I", "J", "K", "L", "M",
                "N", "O", "P", "Q", "R", "S", "T", "U", "V", "W", "X", "Y", "Z">>
LowerChars == <<"a", "b", "c", "d", "e", "f", "g", "h", "i", "j", "k", "l", "m",
                "n", "o", "p", "q", "r", "s", "t", "u", "v", "w", "x", "y", "z">>
DigitChars == <<"0", "1", "2", "3", "4", "5", "6", "7", "8", "9">>

Range(s) == {s[i] : i \in DOMAIN s}

\* String.prototype.toLowerCase, one character.
LowerChar(c) ==
  IF \E i \in DOMAIN UpperChars : UpperChars[i] = c
  THEN LowerChars[CHOOSE i \in DOMAIN UpperChars : UpperChars[i] = c]
  ELSE c

\* String.prototype.toLowerCase.
toLowerCase(s) == [i \in DOMAIN s |-> LowerChar(s[i])]

\* The character class [a-z0-9] of slugify's regular expression.
IsSlugChar(c) == c \in Range(LowerChars) \cup Range(DigitChars)

IsSpace(c) == c = " "

RECURSIVE TrimLeft(_)
TrimLeft(s) ==
  IF s # <<>> /\ IsSpace(Head(s)) THEN TrimLeft(Tail(s)) ELSE s

RECURSIVE TrimRight(_)
TrimRight(s) ==
  IF s # <<>> /\ IsSpace(s[Len(s)]) THEN TrimRight(SubSeq(s, 1, Len(s) - 1)) ELSE s

\* String.prototype.trim.
trim(s) == TrimRight(TrimLeft(s))

\* Decimal rendering of a number inside a template literal.
RECURSIVE NumToStr(_)
NumToStr(n) ==
  IF n < 10 THEN <<DigitChars[n + 1]>>
  ELSE NumToStr(n \div 10) \o <<DigitChars[(n % 10) + 1]>>

\* The literals of the program.
StrProfileCap == <<"P", "r", "o", "f", "i", "l", "e">>
StrProfile == <<"p", "r", "o", "f", "i", "l", "e">>
StrJson == <<".", "j", "s", "o", "n">>

\* .replace(/[^a-z0-9]+/g, "-"): every maximal run of other characters
\* becomes one hyphen.
RECURSIVE CollapseRuns(_, _)
CollapseRuns(s, inRun) ==
  IF s = <<>> THEN <<>>
  ELSE IF IsSlugChar(Head(s)) THEN <<Head(s)>> \o CollapseRuns(Tail(s), FALSE)
  ELSE IF inRun THEN CollapseRuns(Tail(s), TRUE)
  ELSE <<"-">> \o CollapseRuns(Tail(s), TRUE)

RECURSIVE StripLeadingHyphens(_)
StripLeadingHyphens(s) ==
  IF s # <<>> /\ Head(s) = "-" THEN StripLeadingHyphens(Tail(s)) ELSE s

RECURSIVE StripTrailingHyphens(_)
StripTrailingHyphens(s) ==
  IF s # <<>> /\ s[Len(s)] = "-"
  THEN StripTrailingHyphens(SubSeq(s, 1, Len(s) - 1))
  ELSE s

\* slugify: the alphabet of the model holds no character with a diacritic,
\* on which normalize("NFKD") and the removal of combining marks act.
slugify(value) ==
  StripTrailingHyphens(StripLeadingHyphens(CollapseRuns(toLowerCase(value), FALSE)))

sanitizeFileName(value) ==
  IF Len(slugify(value)) > 0 THEN slugify(value) ELSE StrProfile

\* filename.lastIndexOf("."), 0 when there is none.
RECURSIVE LastDot(_, _)
LastDot(f, i) ==
  IF i = 0 THEN 0 ELSE IF f[i] = "." THEN i ELSE LastDot(f, i - 1)

splitFilename(filename) ==
  LET index == LastDot(filename, Len(filename)) IN
  IF index = 0
  THEN [stem |-> filename, extension |-> <<>>]
  ELSE [stem |-> SubSeq(filename, 1, index - 1),
        extension |-> SubSeq(filename, index, Len(filename))]

(***************************************************************************)
(* Values: undefined of the program, file contents.                        *)
(***************************************************************************)
Undefined == <<"undefined">>

\* The target configuration is an opaque blob: two contents tell a copy
\* from the original.
Contents == {"c1", "c2"}
NoData == "none"

\* ProfileMetadata (the value of a local that holds none yet).
NoProfile ==
  [id |-> <<>>, name |-> <<>>, filename |-> <<>>, createdAt |-> 0, updatedAt |-> 0]

(***************************************************************************)
(* Naming resolver.  profiles is this.settings.profiles at the call.       *)
(***************************************************************************)
generateDefaultProfileName(profiles) ==
  StrProfileCap \o <<" ">> \o NumToStr(Len(profiles) + 1)

\* A candidate without the space before the parenthesis.
NameCandidateNoSpace(sanitizedBase, index) ==
  sanitizedBase \o <<"(">> \o NumToStr(index) \o <<")">>

\* `${sanitizedBase} (${index})`
NameCandidate(sanitizedBase, index) ==
  sanitizedBase \o <<" ", "(">> \o NumToStr(index) \o <<")">>

\* The loop comparing the candidate as it is typed, case included.
RECURSIVE UniqueNameLoopExact(_, _, _, _)
UniqueNameLoopExact(existingNames, sanitizedBase, candidate, index) ==
  IF candidate \in existingNames
  THEN UniqueNameLoopExact(existingNames, sanitizedBase,
                           sanitizedBase \o <<" ", "(">> \o NumToStr(index) \o <<")">>,
                           index + 1)
  ELSE candidate

\* The while loop of ensureUniqueProfileName.
RECURSIVE UniqueNameLoop(_, _, _, _)
UniqueNameLoop(existingNames, sanitizedBase, candidate, index) ==
  IF toLowerCase(candidate) \in existingNames
  THEN UniqueNameLoop(existingNames, sanitizedBase,
                      NameCandidate(sanitizedBase, index), index + 1)
  ELSE candidate

ensureUniqueProfileName(profiles, baseName, excludeId) ==
  LET sanitizedBase ==
        IF trim(baseName) # <<>> THEN trim(baseName)
        ELSE generateDefaultProfileName(profiles)
      existingNames ==
        {toLowerCase(profiles[i].name) :
           i \in {j \in DOMAIN profiles : profiles[j].id # excludeId}}
  IN UniqueNameLoop(existingNames, sanitizedBase, sanitizedBase, 2)

\* `${parsed.stem}-${index}${parsed.extension}`
FilenameCandidate(parsed, index) ==
  parsed.stem \o <<"-">> \o NumToStr(index) \o parsed.extension

\* The while loop of ensureUniqueFilename.
RECURSIVE UniqueFilenameLoop(_, _, _, _)
UniqueFilenameLoop(existingFilenames, parsed, candidate, index) ==
  IF toLowerCase(candidate) \in existingFilenames
  THEN UniqueFilenameLoop(existingFilenames, parsed,
                          FilenameCandidate(parsed, index), index + 1)
  ELSE candidate

ensureUniqueFilename(profiles, baseFilename, excludeId) ==
  LET existingFilenames ==
        {toLowerCase(profiles[i].filename) :
           i \in {j \in DOMAIN profiles : profiles[j].id # excludeId}}
      parsed == splitFilename(baseFilename)
  IN UniqueFilenameLoop(existingFilenames, parsed,
                        parsed.stem \o parsed.extension, 2)

\* The while loop of createUniqueId.
RECURSIVE UniqueIdLoop(_, _, _, _)
UniqueIdLoop(existingIds, base, candidate, index) ==
  IF candidate \in existingIds
  THEN UniqueIdLoop(existingIds, base, base \o <<"-">> \o NumToStr(index), index + 1)
  ELSE candidate

\* A createUniqueId without its loop: the slug of the name, taken or not.
createUniqueIdOfSlug(profiles, name) ==
  IF slugify(name) # <<>> THEN slugify(name) ELSE StrProfile

createUniqueId(profiles, name) ==
  LET base == IF slugify(name) # <<>> THEN slugify(name) ELSE StrProfile
      existingIds == {profiles[i].id : i \in DOMAIN profiles}
  IN UniqueIdLoop(existingIds, base, base, 2)

createProfileMetadata(profiles, name, timestamp) ==
  [id |-> createUniqueId(profiles, name),
   name |-> name,
   filename |-> ensureUniqueFilename(profiles, sanitizeFileName(name) \o StrJson, Undefined),
   createdAt |-> timestamp,
   updatedAt |-> timestamp]

\* getProfileById: the index of the first profile with the id, 0 for undefined.
getProfileById(profiles, profileId) ==
  IF \E i \in DOMAIN profiles : profiles[i].id = profileId
  THEN CHOOSE i \in DOMAIN profiles :
         /\ profiles[i].id = profileId
         /\ \A j \in DOMAIN profiles : profiles[j].id = profileId => i <= j
  ELSE 0

(***************************************************************************)
(* State.                                                                  *)
(***************************************************************************)
VARIABLES
  settings,      \* this.settings: [profiles, backup]; backup is <<>> for null
  persisted,     \* the plugin's data.json, as saveData last wrote it
  profileFiles,  \* the files of the profile directory: filename -> content
  backupFile,    \* the content of backup.json, NoData when there is no file
  target,        \* the content of Notebook Navigator's data.json
  commands,      \* the registered activate-profile commands: [id, name]
  rendered,      \* what display() last built: the rows and the backup section
  disabled,      \* the buttons of that rendering that bindButton has disabled
  ops,           \* the invocations in progress, one per slot
  orphans,       \* profile objects removed from the list that an invocation holds
  clock,         \* Date.now()
  started,       \* invocations started so far (counted when they may overlap)
  faults,        \* awaited calls that have failed for a reason of their own
  hist,          \* history: the activation that has just ended well, and the
                 \* restore that has ended well right after it
  thrown         \* the error that the last call of a method has thrown, if it has

vars == <<settings, persisted, profileFiles, backupFile, target, commands,
          rendered, disabled, ops, orphans, clock, started, faults, hist, thrown>>

OpIds == 1..MaxOps

NoRef == [loc |-> "none", i |-> 0]
NoButton == [label |-> "none", id |-> <<>>]

\* The ConfirmationModal of a deletion before any event: its field
\* `resolved`, the calls of options.onResult it has made, and the events it
\* has seen (how many, and which was the first).
NoModal == [resolved |-> FALSE, calls |-> <<>>, first |-> "none", events |-> 0]

IdleOp ==
  [kind |-> "idle", pc |-> "idle", pid |-> <<>>, ref |-> NoRef, name |-> <<>>,
   meta |-> NoProfile, path |-> <<>>, kept |-> <<>>, data |-> NoData, pre |-> NoData,
   btn |-> NoButton, live |-> FALSE, modal |-> NoModal]

NoHist == [kind |-> "none", result |-> "none", pre |-> NoData]

Idle == \A o \in OpIds : ops[o].kind = "idle"

\* The object a local variable `profile` refers to.
Obj(ref) ==
  IF ref.loc = "list" THEN settings.profiles[ref.i] ELSE orphans[ref.i]

\* The list and the orphans after an assignment to fields of that object.
AssignProfiles(ref, rec) ==
  IF ref.loc = "list" THEN [settings.profiles EXCEPT ![ref.i] = rec]
  ELSE settings.profiles

AssignOrphans(ref, rec) ==
  IF ref.loc = "orphan" THEN [orphans EXCEPT ![ref.i] = rec] ELSE orphans

\* The orphans that the invocations other than o still hold.
HeldOrphans(o) ==
  {ops[p].ref.i : p \in {q \in OpIds \ {o} : ops[q].ref.loc = "orphan"}}

Restrict(f, S) == [x \in (DOMAIN f) \cap S |-> f[x]]

\* A stat that finds a file wherever it looks.
IsFileAlways(filename) == TRUE

\* The answer of adapter.stat for a profile's file: stat?.type === "file".
IsFile(filename) == filename \in DOMAIN profileFiles

\* NotebookNavigatorProfilesSettingTab.display: one row of buttons per
\* profile, and the restore button when a backup is recorded; with an empty
\* list display returns before the backup section.
Display(s) ==
  [ids |-> [i \in DOMAIN s.profiles |-> s.profiles[i].id],
   backup |-> s.profiles # <<>> /\ s.backup # <<>>]

\* registerProfileCommands: the registry is emptied and one command is added
\* per profile; adding a command under an id that is there replaces it.
registerProfileCommands(profiles) ==
  {[id |-> profiles[i].id, name |-> profiles[i].name] :
     i \in {j \in DOMAIN profiles :
              \A k \in DOMAIN profiles : profiles[k].id = profiles[j].id => k <= j}}

\* An invocation ends: its slot is free, and the finally block of bindButton
\* enables its button again.  With display = TRUE the method has called
\* requestSettingsReload just before: every button is a new, enabled one.
EndOp(o, result, display) ==
  /\ ops' = [p \in OpIds |->
               IF p = o THEN IdleOp
               ELSE IF display THEN [ops[p] EXCEPT !.live = FALSE]
               ELSE ops[p]]
  /\ disabled' = IF display THEN {}
                 ELSE IF ops[o].live THEN disabled \ {ops[o].btn}
                 ELSE disabled
  /\ rendered' = IF display THEN Display(settings') ELSE rendered
  /\ orphans' = Restrict(orphans, HeldOrphans(o))
  /\ hist' = IF ops[o].kind = "activate" /\ result = "ok"
             THEN [kind |-> "activate", result |-> "ok", pre |-> ops[o].pre]
             ELSE IF ops[o].kind = "revert" /\ result = "ok" /\ hist.kind = "activate"
             THEN [hist EXCEPT !.kind = "revert"]
             ELSE NoHist
  /\ thrown' = IF result \in {"ok", "cancelled"} THEN "none" ELSE result

\* The smallest free slot.
FreeSlot == CHOOSE o \in OpIds : ops[o].kind = "idle" /\ \A p \in OpIds : ops[p].kind = "idle" => o <= p

\* When a user action may start an invocation.  cfg.concurrent = FALSE is
\* one task at a time: the user waits for an operation to end before the
\* next one.  cfg.counted bounds the length of the session.
CanStart(cfg) ==
  /\ \E o \in OpIds : ops[o].kind = "idle"
  /\ \A o \in OpIds : ops[o].kind # "onload"
  /\ cfg.concurrent \/ Idle
  /\ cfg.counted => started < MaxStarts

\* A new invocation in the free slot; a button bound by bindButton is
\* disabled for as long as its action runs.
Begin(cfg, op) ==
  /\ ops' = [ops EXCEPT ![FreeSlot] = op]
  /\ disabled' = IF op.btn = NoButton THEN disabled ELSE disabled \cup {op.btn}
  /\ started' = IF cfg.counted THEN started + 1 ELSE started
  /\ faults' = faults
  /\ hist' = IF op.kind = "revert" THEN hist ELSE NoHist
  /\ thrown' = "none"

NewOp(kind, pc, pid, btn) ==
  [IdleOp EXCEPT !.kind = kind, !.pc = pc, !.pid = pid, !.pre = target,
                 !.btn = btn, !.live = (btn # NoButton)]

\* A button that takes a click whether it is disabled or not.
ButtonShown(label, id) ==
  \E i \in DOMAIN rendered.ids : rendered.ids[i] = id

\* bindButton: the button is in the current rendering and is not disabled.
ButtonEnabled(label, id) ==
  /\ \E i \in DOMAIN rendered.ids : rendered.ids[i] = id
  /\ [label |-> label, id |-> id] \notin disabled

Step(o, pc) == ops' = [ops EXCEPT ![o].pc = pc]

\* One more call fails for a reason of its own.
Fault ==
  /\ faults < MaxFaults
  /\ faults' = faults + 1

(***************************************************************************)
(* createProfile, from the submit of the name modal.                       *)
(***************************************************************************)
\* The invocations of createProfile in progress that have not appended yet.
PendingCreates == Cardinality({o \in OpIds : ops[o].kind = "create"})

\* ProfileNameModal.submit trims the value and refuses an empty one; then
\* createProfile runs up to its first await, ensureStorageFolder.
SubmitCreate(cfg, value) ==
  /\ CanStart(cfg)
  /\ Len(settings.profiles) + PendingCreates < cfg.maxProfiles
  /\ trim(value) # <<>>
  /\ Begin(cfg, [NewOp("create", "ensure", <<>>, NoButton) EXCEPT !.name = trim(value)])
  /\ UNCHANGED <<settings, persisted, profileFiles, backupFile, target, commands,
                 rendered, orphans, clock>>

\* A createProfile that appends the metadata as soon as it is made, before
\* the target configuration is read.
CreateResolveAppends(o) ==
  /\ ops[o].kind = "create" /\ ops[o].pc = "ensure"
  /\ LET base == IF trim(ops[o].name) # <<>> THEN trim(ops[o].name)
                 ELSE generateDefaultProfileName(settings.profiles)
         uniqueName == ensureUniqueProfileName(settings.profiles, base, Undefined)
         metadata == createProfileMetadata(settings.profiles, uniqueName, clock)
     IN /\ ops' = [ops EXCEPT ![o].pc = "readTarget", ![o].meta = metadata]
        /\ settings' = [settings EXCEPT !.profiles = Append(@, metadata)]
  /\ UNCHANGED <<persisted, profileFiles, backupFile, target, commands,
                 rendered, disabled, orphans, clock, started, faults, hist, thrown>>

\* Lines 94-97: the name and the metadata are resolved against the list as
\* it is now; then the target configuration is read.
CreateResolve(o) ==
  /\ ops[o].kind = "create" /\ ops[o].pc = "ensure"
  /\ LET base == IF trim(ops[o].name) # <<>> THEN trim(ops[o].name)
                 ELSE generateDefaultProfileName(settings.profiles)
         uniqueName == ensureUniqueProfileName(settings.profiles, base, Undefined)
         metadata == createProfileMetadata(settings.profiles, uniqueName, clock)
     IN ops' = [ops EXCEPT ![o].pc = "readTarget", ![o].meta = metadata]
  /\ UNCHANGED <<settings, persisted, profileFiles, backupFile, target, commands,
                 rendered, disabled, orphans, clock, started, faults, hist, thrown>>

\* readNotebookNavigatorData has returned (create, update, activate); the
\* method goes on to its write.
ReadTargetDone(o) ==
  /\ ops[o].kind \in {"create", "update", "activate"} /\ ops[o].pc = "readTarget"
  /\ ops' = [ops EXCEPT ![o].data = target,
                        ![o].pc = IF ops[o].kind = "activate" THEN "writeBackup"
                                  ELSE "writeProfile"]
  /\ UNCHANGED <<settings, persisted, profileFiles, backupFile, target, commands,
                 rendered, disabled, orphans, clock, started, faults, hist, thrown>>

\* The metadata appended without the file being written.
CreateAppendUnwritten(o) ==
  /\ ops[o].kind = "create" /\ ops[o].pc = "writeProfile"
  /\ settings' = [settings EXCEPT !.profiles = Append(@, ops[o].meta)]
  /\ Step(o, "save")
  /\ UNCHANGED <<persisted, profileFiles, backupFile, target, commands, rendered,
                 disabled, orphans, clock, started, faults, hist, thrown>>

\* Lines 98-101: the profile file is written, the metadata is appended and
\* finalizeProfileMutation calls saveSettings.
CreateAppend(o) ==
  /\ ops[o].kind = "create" /\ ops[o].pc = "writeProfile"
  /\ profileFiles' = [f \in DOMAIN profileFiles \cup {ops[o].meta.filename} |->
                        IF f = ops[o].meta.filename THEN ops[o].data ELSE profileFiles[f]]
  /\ settings' = [settings EXCEPT !.profiles = Append(@, ops[o].meta)]
  /\ Step(o, "save")
  /\ UNCHANGED <<persisted, backupFile, target, commands, rendered, disabled,
                 orphans, clock, started, faults, hist, thrown>>

\* finalizeProfileMutation after saveSettings (create, rename, delete): the
\* commands are registered again and the settings tab is drawn again.
FinalizeDone(o) ==
  /\ ops[o].kind \in {"create", "rename", "delete"} /\ ops[o].pc = "save"
  /\ persisted' = settings
  /\ commands' = registerProfileCommands(settings.profiles)
  /\ UNCHANGED <<settings, profileFiles, backupFile, target, clock, started, faults>>
  /\ EndOp(o, "ok", TRUE)

(***************************************************************************)
(* updateProfile, from the Update button of a row.                         *)
(***************************************************************************)
ClickUpdate(cfg, id) ==
  /\ CanStart(cfg)
  /\ ButtonEnabled("Update", id)
  /\ Begin(cfg, NewOp("update", "ensure", id, [label |-> "Update", id |-> id]))
  /\ UNCHANGED <<settings, persisted, profileFiles, backupFile, target, commands,
                 rendered, orphans, clock>>

\* Lines 128-133: the profile is looked up after ensureStorageFolder.
UpdateLookup(o) ==
  /\ ops[o].kind = "update" /\ ops[o].pc = "ensure"
  /\ LET i == getProfileById(settings.profiles, ops[o].pid) IN
       IF i = 0
       THEN /\ UNCHANGED <<settings, persisted, profileFiles, backupFile, target,
                           commands, clock, started, faults>>
            /\ EndOp(o, "NotFound", FALSE)
       ELSE /\ ops' = [ops EXCEPT ![o].ref = [loc |-> "list", i |-> i],
                                  ![o].pc = "readTarget"]
            /\ UNCHANGED <<settings, persisted, profileFiles, backupFile, target,
                           commands, rendered, disabled, orphans, clock, started, faults,
                           hist, thrown>>

\* updateProfile without line 136: the file is written, updatedAt is left.
UpdateWrittenUnstamped(o) ==
  /\ ops[o].kind = "update" /\ ops[o].pc = "writeProfile"
  /\ LET filename == Obj(ops[o].ref).filename
     IN profileFiles' = [f \in DOMAIN profileFiles \cup {filename} |->
                           IF f = filename THEN ops[o].data ELSE profileFiles[f]]
  /\ Step(o, "save")
  /\ UNCHANGED <<settings, orphans, persisted, backupFile, target, commands, rendered,
                 disabled, clock, started, faults, hist, thrown>>

\* Lines 134-137: the write to the profile's file is done; updatedAt.
UpdateWritten(o) ==
  /\ ops[o].kind = "update" /\ ops[o].pc = "writeProfile"
  /\ LET profile == Obj(ops[o].ref)
         filename == profile.filename
     IN /\ profileFiles' = [f \in DOMAIN profileFiles \cup {filename} |->
                              IF f = filename THEN ops[o].data ELSE profileFiles[f]]
        /\ settings' = [settings EXCEPT !.profiles =
                          AssignProfiles(ops[o].ref, [profile EXCEPT !.updatedAt = clock])]
        /\ orphans' = AssignOrphans(ops[o].ref, [profile EXCEPT !.updatedAt = clock])
  /\ Step(o, "save")
  /\ UNCHANGED <<persisted, backupFile, target, commands, rendered, disabled,
                 clock, started, faults, hist, thrown>>

\* saveSettings is done where only the settings tab is drawn again (update
\* with skipCommandRefresh, activate, restore).
SaveDone(o) ==
  /\ ops[o].kind \in {"update", "activate", "revert"} /\ ops[o].pc = "save"
  /\ persisted' = settings
  /\ UNCHANGED <<settings, profileFiles, backupFile, target, commands, clock,
                 started, faults>>
  /\ EndOp(o, "ok", TRUE)

(***************************************************************************)
(* activateProfile, from the Activate button of a row or from a command.   *)
(***************************************************************************)
\* Lines 106-111: the lookup runs before the first await; an unknown id
\* throws at once and nothing is in progress.
BeginActivate(cfg, id, btn) ==
  /\ CanStart(cfg)
  /\ getProfileById(settings.profiles, id) # 0
  /\ Begin(cfg, [NewOp("activate", "ensure", id, btn) EXCEPT
                   !.ref = [loc |-> "list", i |-> getProfileById(settings.profiles, id)]])
  /\ UNCHANGED <<settings, persisted, profileFiles, backupFile, target, commands,
                 rendered, orphans, clock>>

ClickActivate(cfg, id) ==
  /\ ButtonEnabled("Activate", id)
  /\ BeginActivate(cfg, id, [label |-> "Activate", id |-> id])

RunCommand(cfg, id) ==
  /\ \E c \in commands : c.id = id
  /\ BeginActivate(cfg, id, NoButton)

\* An activation that goes from ensureStorageFolder straight to
\* readProfileData.
ActivateEnsuredNoBackup(o) ==
  /\ ops[o].kind = "activate" /\ ops[o].pc = "ensure"
  /\ Step(o, "readProfile")
  /\ UNCHANGED <<settings, persisted, profileFiles, backupFile, target, commands,
                 rendered, disabled, orphans, clock, started, faults, hist, thrown>>

\* ensureStorageFolder is done (activate): readNotebookNavigatorData.
ActivateEnsured(o) ==
  /\ ops[o].kind = "activate" /\ ops[o].pc = "ensure"
  /\ Step(o, "readTarget")
  /\ UNCHANGED <<settings, persisted, profileFiles, backupFile, target, commands,
                 rendered, disabled, orphans, clock, started, faults, hist, thrown>>

\* A createBackup that records the metadata and writes no file.
createBackupMetadataOnly(content, sourceProfile) ==
  /\ backupFile' = backupFile
  /\ settings' = [settings EXCEPT !.backup =
                    <<[createdAt |-> clock,
                       sourceProfileId |-> sourceProfile.id,
                       sourceProfileName |-> sourceProfile.name]>>]

\* A createBackup that keeps the backup there is: the file and the metadata
\* are written only when no backup is recorded.
createBackupIfNone(content, sourceProfile) ==
  IF settings.backup # <<>>
  THEN UNCHANGED <<backupFile, settings>>
  ELSE /\ backupFile' = content
       /\ settings' = [settings EXCEPT !.backup =
                         <<[createdAt |-> clock,
                            sourceProfileId |-> sourceProfile.id,
                            sourceProfileName |-> sourceProfile.name]>>]

\* createBackup once adapter.write is done: the file holds the content and
\* the metadata names the profile.
createBackup(content, sourceProfile) ==
  /\ backupFile' = content
  /\ settings' = [settings EXCEPT !.backup =
                    <<[createdAt |-> clock,
                       sourceProfileId |-> sourceProfile.id,
                       sourceProfileName |-> sourceProfile.name]>>]

\* Lines 114-116: createBackup is done; readProfileData is called.
BackupWritten(o) ==
  /\ ops[o].kind = "activate" /\ ops[o].pc = "writeBackup"
  /\ createBackup(ops[o].data, Obj(ops[o].ref))
  /\ Step(o, "readProfile")
  /\ UNCHANGED <<persisted, profileFiles, target, commands, rendered, disabled,
                 orphans, clock, started, faults, hist, thrown>>

\* readProfileData has returned the content of the profile's file.
ReadProfileDone(o) ==
  /\ ops[o].kind = "activate" /\ ops[o].pc = "readProfile"
  /\ Obj(ops[o].ref).filename \in DOMAIN profileFiles
  /\ ops' = [ops EXCEPT ![o].data = profileFiles[Obj(ops[o].ref).filename],
                        ![o].pc = "writeTarget"]
  /\ UNCHANGED <<settings, persisted, profileFiles, backupFile, target, commands,
                 rendered, disabled, orphans, clock, started, faults, hist, thrown>>

\* Lines 117-120: writeNotebookNavigatorData is done; updatedAt; saveSettings.
ActivateWritten(o) ==
  /\ ops[o].kind = "activate" /\ ops[o].pc = "writeTarget"
  /\ target' = ops[o].data
  /\ LET profile == Obj(ops[o].ref) IN
       /\ settings' = [settings EXCEPT !.profiles =
                         AssignProfiles(ops[o].ref, [profile EXCEPT !.updatedAt = clock])]
       /\ orphans' = AssignOrphans(ops[o].ref, [profile EXCEPT !.updatedAt = clock])
  /\ Step(o, "save")
  /\ UNCHANGED <<persisted, profileFiles, backupFile, commands, rendered, disabled,
                 clock, started, faults, hist, thrown>>

(***************************************************************************)
(* renameProfile, from the submit of the name modal of a row.              *)
(***************************************************************************)
\* The Rename button opens the modal; its submit trims the value and
\* refuses an empty one.
SubmitRename(cfg, id, value) ==
  /\ CanStart(cfg)
  /\ \E i \in DOMAIN rendered.ids : rendered.ids[i] = id
  /\ trim(value) # <<>>
  /\ Begin(cfg, [NewOp("rename", "ensure", id, NoButton) EXCEPT !.name = trim(value)])
  /\ UNCHANGED <<settings, persisted, profileFiles, backupFile, target, commands,
                 rendered, orphans, clock>>

\* Lines 165-167.
RenameAssign(ref, uniqueName, newFilename) ==
  LET renamed == [Obj(ref) EXCEPT !.name = uniqueName, !.filename = newFilename,
                                  !.updatedAt = clock]
  IN /\ settings' = [settings EXCEPT !.profiles = AssignProfiles(ref, renamed)]
     /\ orphans' = AssignOrphans(ref, renamed)

\* A renameProfile that tests the name before it looks the profile up.
RenameResolveNameFirst(o) ==
  /\ ops[o].kind = "rename" /\ ops[o].pc = "ensure"
  /\ LET i == getProfileById(settings.profiles, ops[o].pid)
         trimmed == trim(ops[o].name)
         ref == [loc |-> "list", i |-> i]
         uniqueName == ensureUniqueProfileName(settings.profiles, trimmed, ops[o].pid)
         newFilename == ensureUniqueFilename(settings.profiles,
                          sanitizeFileName(uniqueName) \o StrJson, ops[o].pid)
     IN IF i = 0 \/ Len(trimmed) = 0
        THEN /\ UNCHANGED <<settings, persisted, profileFiles, backupFile, target,
                            commands, clock, started, faults>>
             /\ EndOp(o, IF Len(trimmed) = 0 THEN "EmptyName" ELSE "NotFound", FALSE)
        ELSE IF settings.profiles[i].filename # newFilename
        THEN /\ ops' = [ops EXCEPT ![o].ref = ref, ![o].pc = "renameFile",
                          ![o].path = settings.profiles[i].filename,
                          ![o].meta = [NoProfile EXCEPT !.name = uniqueName,
                                                        !.filename = newFilename]]
             /\ UNCHANGED <<settings, persisted, profileFiles, backupFile, target,
                            commands, rendered, disabled, orphans, clock, started, faults,
                            hist, thrown>>
        ELSE /\ RenameAssign(ref, uniqueName, newFilename)
             /\ ops' = [ops EXCEPT ![o].ref = ref, ![o].pc = "save"]
             /\ UNCHANGED <<persisted, profileFiles, backupFile, target, commands,
                            rendered, disabled, clock, started, faults, hist, thrown>>

\* Lines 144-163: lookup, the empty-name check, the unique name and file
\* name; the file is renamed only when the path changes.
RenameResolve(o) ==
  /\ ops[o].kind = "rename" /\ ops[o].pc = "ensure"
  /\ LET i == getProfileById(settings.profiles, ops[o].pid)
         trimmed == trim(ops[o].name)
         ref == [loc |-> "list", i |-> i]
         uniqueName == ensureUniqueProfileName(settings.profiles, trimmed, ops[o].pid)
         newFilename == ensureUniqueFilename(settings.profiles,
                          sanitizeFileName(uniqueName) \o StrJson, ops[o].pid)
     IN IF i = 0 \/ Len(trimmed) = 0
        THEN /\ UNCHANGED <<settings, persisted, profileFiles, backupFile, target,
                            commands, clock, started, faults>>
             /\ EndOp(o, IF i = 0 THEN "NotFound" ELSE "EmptyName", FALSE)
        ELSE IF settings.profiles[i].filename # newFilename
        THEN /\ ops' = [ops EXCEPT ![o].ref = ref, ![o].pc = "renameFile",
                          ![o].path = settings.profiles[i].filename,
                          ![o].meta = [NoProfile EXCEPT !.name = uniqueName,
                                                        !.filename = newFilename]]
             /\ UNCHANGED <<settings, persisted, profileFiles, backupFile, target,
                            commands, rendered, disabled, orphans, clock, started, faults,
                            hist, thrown>>
        ELSE /\ RenameAssign(ref, uniqueName, newFilename)
             /\ ops' = [ops EXCEPT ![o].ref = ref, ![o].pc = "save"]
             /\ UNCHANGED <<persisted, profileFiles, backupFile, target, commands,
                            rendered, disabled, clock, started, faults, hist, thrown>>

\* adapter.rename that leaves the file at the old path: a copy.
RenameMovedCopy(o) ==
  /\ ops[o].kind = "rename" /\ ops[o].pc = "renameFile"
  /\ ops[o].path \in DOMAIN profileFiles
  /\ profileFiles' =
       [f \in DOMAIN profileFiles \cup {ops[o].meta.filename} |->
          IF f = ops[o].meta.filename THEN profileFiles[ops[o].path] ELSE profileFiles[f]]
  /\ RenameAssign(ops[o].ref, ops[o].meta.name, ops[o].meta.filename)
  /\ Step(o, "save")
  /\ UNCHANGED <<persisted, backupFile, target, commands, rendered, disabled,
                 clock, started, faults, hist, thrown>>

\* adapter.rename is done: the content is at the new path.
RenameMoved(o) ==
  /\ ops[o].kind = "rename" /\ ops[o].pc = "renameFile"
  /\ ops[o].path \in DOMAIN profileFiles
  /\ profileFiles' =
       [f \in (DOMAIN profileFiles \ {ops[o].path}) \cup {ops[o].meta.filename} |->
          IF f = ops[o].meta.filename THEN profileFiles[ops[o].path] ELSE profileFiles[f]]
  /\ RenameAssign(ops[o].ref, ops[o].meta.name, ops[o].meta.filename)
  /\ Step(o, "save")
  /\ UNCHANGED <<persisted, backupFile, target, commands, rendered, disabled,
                 clock, started, faults, hist, thrown>>

(***************************************************************************)
(* deleteProfile, from the Delete button of a row, after the confirmation. *)
(***************************************************************************)
Max(S) == CHOOSE x \in S : \A y \in S : y <= x

ClickDelete(cfg, id) ==
  /\ CanStart(cfg)
  /\ ButtonEnabled("Delete", id)
  /\ Begin(cfg, NewOp("delete", "confirm", id, [label |-> "Delete", id |-> id]))
  /\ UNCHANGED <<settings, persisted, profileFiles, backupFile, target, commands,
                 rendered, orphans, clock>>

\* Lines 570-575 and 174-180: the dialog's answer; on a confirmation
\* deleteProfile looks the profile up and calls adapter.stat.
ConfirmResult(o, confirmed) ==
  /\ ops[o].kind = "delete" /\ ops[o].pc = "confirm"
  /\ LET i == getProfileById(settings.profiles, ops[o].pid) IN
       IF ~confirmed \/ i = 0
       THEN /\ UNCHANGED <<settings, persisted, profileFiles, backupFile, target,
                           commands, clock, started, faults>>
            /\ EndOp(o, IF confirmed THEN "NotFound" ELSE "cancelled", FALSE)
       ELSE /\ ops' = [ops EXCEPT ![o].ref = [loc |-> "list", i |-> i],
                                  ![o].path = settings.profiles[i].filename,
                                  ![o].pc = "stat"]
            /\ UNCHANGED <<settings, persisted, profileFiles, backupFile, target,
                           commands, rendered, disabled, orphans, clock, started, faults,
                           hist, thrown>>

(***************************************************************************)
(* ConfirmationModal: the dialog of the Delete button.  Its buttons call   *)
(* resolve and close; close, and every other way of closing the dialog,    *)
(* calls onClose.                                                          *)
(***************************************************************************)
\* A resolve without its test of `resolved`.
resolveAlways(modal, result) ==
  [modal EXCEPT !.resolved = TRUE, !.calls = Append(@, result)]

\* ConfirmationModal.resolve: onResult is called unless `resolved` is set.
resolve(modal, result) ==
  IF modal.resolved THEN modal
  ELSE [modal EXCEPT !.resolved = TRUE, !.calls = Append(@, result)]

\* ConfirmationModal.onClose.
onClose(modal) ==
  IF ~modal.resolved THEN resolve(modal, FALSE) ELSE modal

\* The dialog has seen an event.
Seen(modal, event) ==
  [modal EXCEPT !.events = @ + 1, !.first = IF @ = "none" THEN event ELSE @]

\* A click on Cancel or on Delete (resolve, then close), or the dialog is
\* closed otherwise; the promise of confirmProfileDeletion has not been
\* taken up yet.
ModalEvent(o, event) ==
  /\ ops[o].kind = "delete" /\ ops[o].pc = "confirm"
  /\ ops[o].modal.events < MaxEvents
  /\ ops' = [ops EXCEPT ![o].modal =
               CASE event = "cancel" -> onClose(resolve(Seen(@, event), FALSE))
                 [] event = "confirm" -> onClose(resolve(Seen(@, event), TRUE))
                 [] OTHER -> onClose(Seen(@, event))]
  /\ UNCHANGED <<settings, persisted, profileFiles, backupFile, target, commands,
                 rendered, disabled, orphans, clock, started, faults, hist, thrown>>

\* Lines 213-222 and 570-573: onResult is the resolve of the promise, whose
\* value is that of the first call; the click handler goes on with it.
ConfirmAnswered(o) ==
  /\ ops[o].modal.calls # <<>>
  /\ ConfirmResult(o, ops[o].modal.calls[1])

\* Line 185: the list without the entries of the id.  A local variable of
\* another invocation keeps referring to the object it refers to: an index
\* into the list moves with the list, a removed object becomes an orphan.
RemoveEntries(o) ==
  LET profiles == settings.profiles
      removed == {i \in DOMAIN profiles : profiles[i].id = ops[o].pid}
      held == {i \in removed : \E p \in OpIds \ {o} :
                 ops[p].ref = [loc |-> "list", i |-> i]}
      base == Max(DOMAIN orphans \cup {0})
      orphanOf(i) == base + Cardinality({j \in held : j <= i})
      indexOf(i) == i - Cardinality({j \in removed : j < i})
  IN /\ settings' = [settings EXCEPT !.profiles =
                       SelectSeq(profiles, LAMBDA entry : entry.id # ops[o].pid)]
     /\ orphans' = [k \in DOMAIN orphans \cup {orphanOf(i) : i \in held} |->
                      IF k \in DOMAIN orphans THEN orphans[k]
                      ELSE profiles[CHOOSE i \in held : orphanOf(i) = k]]
     /\ ops' = [p \in OpIds |->
                  IF p = o THEN [ops[o] EXCEPT !.ref = NoRef, !.pc = "save"]
                  ELSE IF ops[p].ref.loc # "list" THEN ops[p]
                  ELSE IF ops[p].ref.i \in removed
                       THEN [ops[p] EXCEPT !.ref = [loc |-> "orphan",
                                                    i |-> orphanOf(ops[p].ref.i)]]
                  ELSE [ops[p] EXCEPT !.ref.i = indexOf(@)]]

\* adapter.stat has answered.  A file: adapter.remove is called.  Nothing
\* there: the entry is removed from the list at once.
DeleteStat(o) ==
  /\ ops[o].kind = "delete" /\ ops[o].pc = "stat"
  /\ IF IsFile(ops[o].path)
     THEN /\ Step(o, "remove")
          /\ UNCHANGED <<settings, orphans>>
     ELSE RemoveEntries(o)
  /\ UNCHANGED <<persisted, profileFiles, backupFile, target, commands, rendered,
                 disabled, clock, started, faults, hist, thrown>>

\* adapter.remove is done.
DeleteRemoved(o) ==
  /\ ops[o].kind = "delete" /\ ops[o].pc = "remove"
  /\ ops[o].path \in DOMAIN profileFiles
  /\ profileFiles' = Restrict(profileFiles, DOMAIN profileFiles \ {ops[o].path})
  /\ RemoveEntries(o)
  /\ UNCHANGED <<persisted, backupFile, target, commands, rendered, disabled,
                 clock, started, faults, hist, thrown>>

(***************************************************************************)
(* revertBackup, from the Restore backup button.                           *)
(***************************************************************************)
RestoreButton == [label |-> "Restore", id |-> <<>>]

\* Lines 277-286: without backup metadata the method throws at once.
ClickRestore(cfg) ==
  /\ CanStart(cfg)
  /\ rendered.backup /\ RestoreButton \notin disabled
  /\ settings.backup # <<>>
  /\ Begin(cfg, NewOp("revert", "readBackup", <<>>, RestoreButton))
  /\ UNCHANGED <<settings, persisted, profileFiles, backupFile, target, commands,
                 rendered, orphans, clock>>

\* adapter.read has returned the backup.
RevertRead(o) ==
  /\ ops[o].kind = "revert" /\ ops[o].pc = "readBackup"
  /\ backupFile # NoData
  /\ ops' = [ops EXCEPT ![o].data = backupFile, ![o].pc = "writeTarget"]
  /\ UNCHANGED <<settings, persisted, profileFiles, backupFile, target, commands,
                 rendered, disabled, orphans, clock, started, faults, hist, thrown>>

\* Lines 294-295: writeNotebookNavigatorData is done.
RevertWritten(o) ==
  /\ ops[o].kind = "revert" /\ ops[o].pc = "writeTarget"
  /\ target' = ops[o].data
  /\ Step(o, "save")
  /\ UNCHANGED <<settings, persisted, profileFiles, backupFile, commands, rendered,
                 disabled, orphans, clock, started, faults, hist, thrown>>

\* A catch block of revertBackup without line 288: the reference to the
\* backup is kept when the read has failed.
RevertReadFailedKeepsReference(o) ==
  /\ ops[o].kind = "revert" /\ ops[o].pc = "readBackup"
  /\ IF backupFile = NoData THEN UNCHANGED faults ELSE Fault
  /\ Step(o, "saveCleared")
  /\ UNCHANGED <<settings, persisted, profileFiles, backupFile, target, commands,
                 rendered, disabled, orphans, clock, started, hist, thrown>>

\* Lines 287-289: the read has failed; the reference is cleared.
RevertReadFailed(o) ==
  /\ ops[o].kind = "revert" /\ ops[o].pc = "readBackup"
  /\ IF backupFile = NoData THEN UNCHANGED faults ELSE Fault
  /\ settings' = [settings EXCEPT !.backup = <<>>]
  /\ Step(o, "saveCleared")
  /\ UNCHANGED <<persisted, profileFiles, backupFile, target, commands, rendered,
                 disabled, orphans, clock, started, hist, thrown>>

\* Lines 289-291: the cleared reference is saved, the tab drawn, and the
\* method throws.
RevertCleared(o) ==
  /\ ops[o].kind = "revert" /\ ops[o].pc = "saveCleared"
  /\ persisted' = settings
  /\ UNCHANGED <<settings, profileFiles, backupFile, target, commands, clock,
                 started, faults>>
  /\ EndOp(o, "BackupMissing", TRUE)

(***************************************************************************)
(* Calls that throw before their first await, and calls of the methods     *)
(* that do not come from the settings tab.                                 *)
(***************************************************************************)
\* The method throws at once: nothing is in progress and nothing has been
\* done; runProfileOperation reports the error and throws it again.
ThrowAtOnce(cfg, error) ==
  /\ CanStart(cfg)
  /\ thrown' = error
  /\ hist' = NoHist
  /\ UNCHANGED <<settings, persisted, profileFiles, backupFile, target, commands,
                 rendered, disabled, ops, orphans, clock, started, faults>>

\* Lines 106-109, from the Activate button or the command of a profile that
\* is not in the list any more.
ActivateNotFound(cfg, id) ==
  /\ ButtonEnabled("Activate", id) \/ \E c \in commands : c.id = id
  /\ getProfileById(settings.profiles, id) = 0
  /\ ThrowAtOnce(cfg, "NotFound")

\* activateProfile(id) called by other code, for an id of its choice.
CallActivate(cfg, id) ==
  \/ /\ getProfileById(settings.profiles, id) = 0
     /\ ThrowAtOnce(cfg, "NotFound")
  \/ BeginActivate(cfg, id, NoButton)

\* revertBackup without the test of lines 277-279: the read of the backup
\* is started whether or not backup metadata is recorded.
CallRevertUnguarded(cfg) ==
  /\ CanStart(cfg)
  /\ Begin(cfg, NewOp("revert", "readBackup", <<>>, NoButton))
  /\ UNCHANGED <<settings, persisted, profileFiles, backupFile, target, commands,
                 rendered, orphans, clock>>

\* revertBackup() called by other code; lines 277-279 without a backup.
CallRevert(cfg) ==
  \/ /\ settings.backup = <<>>
     /\ ThrowAtOnce(cfg, "NoBackup")
  \/ /\ settings.backup # <<>>
     /\ CanStart(cfg)
     /\ Begin(cfg, NewOp("revert", "readBackup", <<>>, NoButton))
     /\ UNCHANGED <<settings, persisted, profileFiles, backupFile, target, commands,
                    rendered, orphans, clock>>

\* renameProfile(id, proposedName) called by other code: the name has not
\* gone through the modal, and the id is of the caller's choice.
CallRename(cfg, id, proposedName) ==
  /\ CanStart(cfg)
  /\ Begin(cfg, [NewOp("rename", "ensure", id, NoButton) EXCEPT !.name = proposedName])
  /\ UNCHANGED <<settings, persisted, profileFiles, backupFile, target, commands,
                 rendered, orphans, clock>>

(***************************************************************************)
(* Failures of the awaited calls.                                          *)
(***************************************************************************)
\* The awaited calls whose rejection leaves the method.
ThrowingCalls ==
  {"ensure", "readTarget", "writeProfile", "writeBackup", "readProfile",
   "writeTarget", "renameFile", "remove", "save", "saveCleared"}

\* The call cannot succeed: the file it reads, renames or removes is not
\* there.  Whether adapter.rename replaces a file at the new path is the
\* adapter's business: both outcomes are possible.
CannotSucceed(o) ==
  \/ ops[o].pc = "readProfile" /\ Obj(ops[o].ref).filename \notin DOMAIN profileFiles
  \/ ops[o].pc = "renameFile" /\ ops[o].path \notin DOMAIN profileFiles
  \/ ops[o].pc = "renameFile" /\ ops[o].meta.filename \in DOMAIN profileFiles
  \/ ops[o].pc = "remove" /\ ops[o].path \notin DOMAIN profileFiles

\* The error that leaves the method: readNotebookNavigatorData and
\* readProfileData throw their own, the other calls the adapter's.
ThrownBy(o) ==
  CASE ops[o].pc = "readTarget" -> "SourceUnavailable"
    [] ops[o].pc = "readProfile" -> "ProfileFileMissing"
    [] OTHER -> "AdapterError"

\* A failure that cleans up after the method: the backup file that an
\* activation has written is removed when the activation fails.
CallFailedDropsBackup(o) ==
  /\ ops[o].kind \notin {"idle", "onload"}
  /\ ops[o].pc \in ThrowingCalls
  /\ backupFile' = IF ops[o].kind = "activate" THEN NoData ELSE backupFile
  /\ UNCHANGED <<settings, persisted, profileFiles, target, commands, clock, started>>
  /\ EndOp(o, ThrownBy(o), FALSE)

\* The awaited call rejects and the error leaves the method: nothing the
\* method would have done next is done (runProfileOperation reports and
\* throws again, bindButton enables the button).
CallFailed(o) ==
  /\ ops[o].kind \notin {"idle", "onload"}
  /\ ops[o].pc \in ThrowingCalls
  /\ UNCHANGED <<settings, persisted, profileFiles, backupFile, target, commands,
                 clock, started>>
  /\ EndOp(o, ThrownBy(o), FALSE)

\* A storage call fails for a reason of its own (an I/O error).
StorageError(o) ==
  /\ ops[o].pc \notin {"save", "saveCleared"}
  /\ Fault
  /\ CallFailed(o)

\* saveData rejects.
SaveError(o) ==
  /\ ops[o].pc \in {"save", "saveCleared"}
  /\ Fault
  /\ CallFailed(o)

\* The file of the call is not there (or, for a rename, one is in the way).
MissingFileError(o) ==
  /\ CannotSucceed(o)
  /\ UNCHANGED faults
  /\ CallFailed(o)

\* Line 180: a rejected adapter.stat is caught and read as "no file".
DeleteStatFailed(o) ==
  /\ ops[o].kind = "delete" /\ ops[o].pc = "stat"
  /\ Fault
  /\ RemoveEntries(o)
  /\ UNCHANGED <<persisted, profileFiles, backupFile, target, commands, rendered,
                 disabled, clock, started, hist, thrown>>

(***************************************************************************)
(* The environment.                                                        *)
(***************************************************************************)
\* Time passes.
Tick ==
  /\ clock < MaxClock
  /\ clock' = clock + 1
  /\ UNCHANGED <<settings, persisted, profileFiles, backupFile, target, commands,
                 rendered, disabled, ops, orphans, started, faults, hist, thrown>>

\* Notebook Navigator rewrites its configuration, between two operations of
\* this plugin.
ExternalEditTarget(c) ==
  /\ Idle
  /\ c # target
  /\ target' = c
  /\ hist' = NoHist
  /\ UNCHANGED <<settings, persisted, profileFiles, backupFile, commands, rendered,
                 disabled, ops, orphans, clock, started, faults, thrown>>

\* The user opens the settings tab: display().
OpenSettingsTab ==
  /\ \A o \in OpIds : ops[o].kind # "onload"
  /\ rendered # Display(settings) \/ disabled # {}
  /\ rendered' = Display(settings)
  /\ disabled' = {}
  /\ ops' = [p \in OpIds |-> [ops[p] EXCEPT !.live = FALSE]]
  /\ UNCHANGED <<settings, persisted, profileFiles, backupFile, target, commands,
                 orphans, clock, started, faults, hist, thrown>>

(***************************************************************************)
(* onload.                                                                 *)
(***************************************************************************)
\* loadSettings, on a data.json that this plugin wrote; ensureStorageFolder
\* is called.
LoadSettings(o) ==
  /\ ops[o].kind = "onload" /\ ops[o].pc = "load"
  /\ settings' = persisted
  /\ Step(o, "ensure")
  /\ UNCHANGED <<persisted, profileFiles, backupFile, target, commands, rendered,
                 disabled, orphans, clock, started, faults, hist, thrown>>

\* ensureStorageFolder is done; pruneMissingProfiles begins its loop.
OnloadEnsured(o) ==
  /\ ops[o].kind = "onload" /\ ops[o].pc = "ensure"
  /\ ops' = [ops EXCEPT ![o].pc = "prune", ![o].ref = [loc |-> "list", i |-> 1]]
  /\ UNCHANGED <<settings, persisted, profileFiles, backupFile, target, commands,
                 rendered, disabled, orphans, clock, started, faults, hist, thrown>>

\* Lines 235-242, one turn of the loop: adapter.stat has answered for the
\* profile at the loop's position; isFile is its answer.
PruneTurn(o, isFile) ==
  LET profile == settings.profiles[ops[o].ref.i] IN
  /\ ops' = [ops EXCEPT ![o].ref.i = @ + 1,
                        ![o].kept = IF isFile THEN Append(@, profile) ELSE @]
  /\ UNCHANGED <<settings, persisted, profileFiles, backupFile, target, commands,
                 rendered, disabled, orphans, clock, started, hist, thrown>>

PruneStat(o) ==
  /\ ops[o].kind = "onload" /\ ops[o].pc = "prune"
  /\ ops[o].ref.i <= Len(settings.profiles)
  /\ UNCHANGED faults
  /\ PruneTurn(o, IsFile(settings.profiles[ops[o].ref.i].filename))

\* Line 236: a rejected adapter.stat is caught and read as "no file".
PruneStatFailed(o) ==
  /\ ops[o].kind = "onload" /\ ops[o].pc = "prune"
  /\ ops[o].ref.i <= Len(settings.profiles)
  /\ Fault
  /\ PruneTurn(o, FALSE)

\* Lines 244-248: after the loop, the list is replaced when a profile is
\* missing, and saved.
PruneEnd(o) ==
  /\ ops[o].kind = "onload" /\ ops[o].pc = "prune"
  /\ ops[o].ref.i > Len(settings.profiles)
  /\ IF Len(ops[o].kept) < Len(settings.profiles)
     THEN /\ settings' = [settings EXCEPT !.profiles = ops[o].kept]
          /\ ops' = [ops EXCEPT ![o].pc = "pruneSave", ![o].ref = NoRef, ![o].kept = <<>>]
     ELSE /\ UNCHANGED settings
          /\ ops' = [ops EXCEPT ![o].pc = "backup", ![o].ref = NoRef, ![o].kept = <<>>]
  /\ UNCHANGED <<persisted, profileFiles, backupFile, target, commands, rendered,
                 disabled, orphans, clock, started, faults, hist, thrown>>

\* saveSettings of pruneMissingProfiles is done.
PruneSaved(o) ==
  /\ ops[o].kind = "onload" /\ ops[o].pc = "pruneSave"
  /\ persisted' = settings
  /\ Step(o, "backup")
  /\ UNCHANGED <<settings, profileFiles, backupFile, target, commands, rendered,
                 disabled, orphans, clock, started, faults, hist, thrown>>

\* Lines 56-62 of onload: the commands are registered; the plugin is loaded.
OnloadEnd(o) ==
  /\ commands' = registerProfileCommands(settings'.profiles)
  /\ ops' = [ops EXCEPT ![o] = IdleOp]
  /\ hist' = NoHist
  /\ thrown' = "none"

\* pruneMissingBackup: nothing to do without backup metadata; otherwise
\* adapter.stat is called.
PruneBackup(o) ==
  /\ ops[o].kind = "onload" /\ ops[o].pc = "backup"
  /\ IF settings.backup = <<>>
     THEN /\ UNCHANGED settings
          /\ OnloadEnd(o)
     ELSE /\ Step(o, "backupStat")
          /\ UNCHANGED <<settings, commands, hist, thrown>>
  /\ UNCHANGED <<persisted, profileFiles, backupFile, target, rendered, disabled,
                 orphans, clock, started, faults>>

\* Lines 257-261: the answer of adapter.stat for backup.json.
BackupStatTurn(o, isFile) ==
  /\ IF isFile
     THEN /\ UNCHANGED settings
          /\ OnloadEnd(o)
     ELSE /\ settings' = [settings EXCEPT !.backup = <<>>]
          /\ Step(o, "backupSave")
          /\ UNCHANGED <<commands, hist, thrown>>
  /\ UNCHANGED <<persisted, profileFiles, backupFile, target, rendered, disabled,
                 orphans, clock, started>>

BackupStat(o) ==
  /\ ops[o].kind = "onload" /\ ops[o].pc = "backupStat"
  /\ UNCHANGED faults
  /\ BackupStatTurn(o, backupFile # NoData)

\* Line 257: a rejected adapter.stat is caught and read as "no file".
BackupStatFailed(o) ==
  /\ ops[o].kind = "onload" /\ ops[o].pc = "backupStat"
  /\ Fault
  /\ BackupStatTurn(o, FALSE)

\* saveSettings of pruneMissingBackup is done.
BackupSaved(o) ==
  /\ ops[o].kind = "onload" /\ ops[o].pc = "backupSave"
  /\ persisted' = settings
  /\ UNCHANGED settings
  /\ OnloadEnd(o)
  /\ UNCHANGED <<profileFiles, backupFile, target, rendered, disabled, orphans,
                 clock, started, faults>>

\* An awaited call of onload rejects: onload throws, the plugin does not
\* load and offers nothing.
OnloadThrows(o) ==
  /\ Fault
  /\ Step(o, "failed")
  /\ UNCHANGED <<settings, persisted, profileFiles, backupFile, target, commands,
                 rendered, disabled, orphans, clock, started, hist, thrown>>

\* ensureStorageFolder rejects in onload.
OnloadFailed(o) ==
  /\ ops[o].kind = "onload" /\ ops[o].pc = "ensure"
  /\ OnloadThrows(o)

\* saveSettings rejects in pruneMissingProfiles or pruneMissingBackup.
OnloadSaveFailed(o) ==
  /\ ops[o].kind = "onload" /\ ops[o].pc \in {"pruneSave", "backupSave"}
  /\ OnloadThrows(o)

(***************************************************************************)
(* The initial states: the plugin is constructed and onload is called, on  *)
(* a data.json and a profile directory that an earlier run has left.       *)
(***************************************************************************)
StrWork == <<"W", "o", "r", "k">>

\* The profile that a creation of "Work" has left.
FirstWork == createProfileMetadata(<<>>, StrWork, 0)

InitialLists == {<<FirstWork>>}
InitialBackups ==
  {<<[createdAt |-> 0, sourceProfileId |-> FirstWork.id,
      sourceProfileName |-> FirstWork.name]>>}

\* The state after construction, before onload: data is the plugin's
\* data.json, present the profile files that exist.
InitWith(data, present, backup, config) ==
  /\ persisted = data
  /\ settings = [profiles |-> <<>>, backup |-> <<>>]
  /\ profileFiles = [f \in present |-> "c1"]
  /\ backupFile = backup
  /\ target = config
  /\ commands = {}
  /\ rendered = [ids |-> <<>>, backup |-> FALSE]
  /\ disabled = {}
  /\ ops = [o \in OpIds |-> IF o = 1 THEN [IdleOp EXCEPT !.kind = "onload", !.pc = "load"]
                            ELSE IdleOp]
  /\ orphans = <<>>
  /\ clock = 0
  /\ started = 0
  /\ faults = 0
  /\ hist = NoHist
  /\ thrown = "none"

Init ==
  \E data \in [profiles : InitialLists, backup : InitialBackups] :
    \E present \in SUBSET {data.profiles[i].filename : i \in DOMAIN data.profiles} :
      \E backup \in {NoData, "c1"} :
        InitWith(data, present, backup, "c2")

\* A first start: no data.json (DEFAULT_SETTINGS), no file of the plugin.
InitFresh ==
  InitWith([profiles |-> <<>>, backup |-> <<>>], {}, NoData, "c1")

(***************************************************************************)
(* The next-state relations.                                               *)
(***************************************************************************)
\* The ids a button or a command can carry.
KnownIds == Range(rendered.ids) \cup {c.id : c \in commands}

\* The value of the create modal: a name typed, or the default it proposes.
CreateValues(cfg) ==
  cfg.names \cup (IF cfg.defaults THEN {generateDefaultProfileName(settings.profiles)}
                  ELSE {})

\* The value of the rename modal: a name typed, or the default it proposes,
\* the profile's name.
RenameValues(cfg, id) ==
  cfg.names \cup {settings.profiles[i].name :
                    i \in {j \in DOMAIN settings.profiles : settings.profiles[j].id = id}}

UserAction(cfg) ==
  \/ \E value \in CreateValues(cfg) : SubmitCreate(cfg, value)
  \/ \E id \in KnownIds : ClickUpdate(cfg, id)
  \/ \E id \in KnownIds : ClickActivate(cfg, id)
  \/ \E id \in KnownIds : RunCommand(cfg, id)
  \/ \E id \in KnownIds : \E value \in RenameValues(cfg, id) : SubmitRename(cfg, id, value)
  \/ \E id \in KnownIds : ClickDelete(cfg, id)
  \/ ClickRestore(cfg)
  \/ OpenSettingsTab

MethodStep ==
  \E o \in OpIds :
    \/ CreateResolve(o)
    \/ ReadTargetDone(o)
    \/ CreateAppend(o)
    \/ FinalizeDone(o)
    \/ UpdateLookup(o)
    \/ UpdateWritten(o)
    \/ SaveDone(o)
    \/ ActivateEnsured(o)
    \/ BackupWritten(o)
    \/ ReadProfileDone(o)
    \/ ActivateWritten(o)
    \/ RenameResolve(o)
    \/ RenameMoved(o)
    \/ \E confirmed \in BOOLEAN : ConfirmResult(o, confirmed)
    \/ DeleteStat(o)
    \/ DeleteRemoved(o)
    \/ RevertRead(o)
    \/ RevertWritten(o)

OnloadStep ==
  \E o \in OpIds :
    \/ LoadSettings(o)
    \/ OnloadEnsured(o)
    \/ PruneStat(o)
    \/ PruneEnd(o)
    \/ PruneSaved(o)
    \/ PruneBackup(o)
    \/ BackupStat(o)
    \/ BackupSaved(o)

\* The failures of the vault adapter.
Failure ==
  \E o \in OpIds :
    \/ StorageError(o)
    \/ MissingFileError(o)
    \/ DeleteStatFailed(o)
    \/ RevertReadFailed(o)
    \/ RevertCleared(o)
    \/ PruneStatFailed(o)
    \/ BackupStatFailed(o)
    \/ OnloadFailed(o)

\* One operation at a time; every awaited call may fail, and the target
\* configuration changes between operations.
StoreCfg ==
  [names |-> {StrWork}, maxProfiles |-> MaxProfiles - 1,
   defaults |-> FALSE, concurrent |-> FALSE, counted |-> FALSE]

\* saveData always succeeds.
NextDurable ==
  \/ UserAction(StoreCfg)
  \/ MethodStep
  \/ OnloadStep
  \/ Failure
  \/ \E c \in Contents : ExternalEditTarget(c)

SpecDurable == Init /\ [][NextDurable]_vars

\* saveData may reject as well.
SaveFailure ==
  \E o \in OpIds :
    \/ SaveError(o)
    \/ OnloadSaveFailed(o)

\* A click on what a failed save has left of a profile that is gone.
StaleClick == \E id \in KnownIds : ActivateNotFound(StoreCfg, id)

Next == NextDurable \/ SaveFailure \/ StaleClick

Spec == Init /\ [][Next]_vars

\* Names that collide: by case ("Work", "work") and by slug ("Work",
\* "Work!"), from a first start, in sessions of MaxStarts operations, one at
\* a time, with a storage that works.
StrWorkLower == <<"w", "o", "r", "k">>
StrWorkBang == <<"W", "o", "r", "k", "!">>

NamingCfg ==
  [names |-> {StrWork, StrWorkLower, StrWorkBang}, maxProfiles |-> MaxProfiles,
   defaults |-> FALSE, concurrent |-> FALSE, counted |-> TRUE]

\* onload on a first start: an empty list and no backup.
FreshOnload ==
  \E o \in OpIds :
    \/ LoadSettings(o)
    \/ OnloadEnsured(o)
    \/ PruneEnd(o)
    \/ PruneBackup(o)

NextNaming == UserAction(NamingCfg) \/ MethodStep \/ FreshOnload

SpecNaming == InitFresh /\ [][NextNaming]_vars

\* The names of the rename cases: two names of one slug, "Work" and
\* "Work!", and a name of another, "Personal".
StrPersonal == <<"P", "e", "r", "s", "o", "n", "a", "l">>

RenameCfg ==
  [names |-> {StrWork, StrWorkBang, StrPersonal}, maxProfiles |-> MaxProfiles,
   defaults |-> FALSE, concurrent |-> FALSE, counted |-> TRUE]

NextRename == UserAction(RenameCfg) \/ MethodStep \/ FreshOnload

SpecRename == InitFresh /\ [][NextRename]_vars

\* The user does not wait: an operation is started while another one is
\* at an await.  The storage works; a call fails only for a file that
\* another operation has moved or removed.
ConcCfg ==
  [names |-> {StrWork}, maxProfiles |-> MaxProfiles - 1,
   defaults |-> FALSE, concurrent |-> TRUE, counted |-> TRUE]

NextConc ==
  \/ UserAction(ConcCfg)
  \/ MethodStep
  \/ FreshOnload
  \/ \E o \in OpIds : MissingFileError(o)

SpecConc == InitFresh /\ [][NextConc]_vars

\* Overlapping activations on a loaded list: the profile file, the backup
\* file and the target hold contents that differ, so that the order of the
\* reads and writes of two invocations shows.  The activations come from
\* the row's button and from the profile's command.
NextOverlap ==
  \/ \E id \in KnownIds : ClickActivate(ConcCfg, id)
  \/ \E id \in KnownIds : RunCommand(ConcCfg, id)
  \/ OpenSettingsTab
  \/ \E o \in OpIds :
       \/ ActivateEnsured(o)
       \/ ReadTargetDone(o)
       \/ BackupWritten(o)
       \/ ReadProfileDone(o)
       \/ ActivateWritten(o)
       \/ SaveDone(o)
  \/ OnloadStep

SpecOverlap == Init /\ [][NextOverlap]_vars

\* The deletion dialog with its events in every order: creations, the
\* Delete buttons, the events of the dialog, and deleteProfile after its
\* answer.
ModalEvents == {"cancel", "confirm", "close"}

NextModal ==
  \/ \E value \in CreateValues(StoreCfg) : SubmitCreate(StoreCfg, value)
  \/ \E id \in KnownIds : ClickDelete(StoreCfg, id)
  \/ OpenSettingsTab
  \/ \E o \in OpIds :
       \/ CreateResolve(o)
       \/ ReadTargetDone(o)
       \/ CreateAppend(o)
       \/ \E event \in ModalEvents : ModalEvent(o, event)
       \/ ConfirmAnswered(o)
       \/ DeleteStat(o)
       \/ DeleteRemoved(o)
       \/ FinalizeDone(o)
  \/ OnloadStep

SpecModal == Init /\ [][NextModal]_vars

\* The methods are called by other code as well, with ids and names of its
\* choice, one call at a time, with a storage that works.
StrBlank == <<" ">>
CallIds == {FirstWork.id, createUniqueId(<<FirstWork>>, StrWork \o <<" ", "(", "2", ")">>)}
CallNames == {StrWork, StrBlank}

DirectCall(cfg) ==
  \/ \E id \in CallIds : CallActivate(cfg, id)
  \/ CallRevert(cfg)
  \/ \E id \in CallIds : \E proposedName \in CallNames : CallRename(cfg, id, proposedName)

NextCalls ==
  \/ UserAction(StoreCfg)
  \/ DirectCall(StoreCfg)
  \/ MethodStep
  \/ OnloadStep

SpecCalls == Init /\ [][NextCalls]_vars

\* Time passes between the steps of a session, one operation at a time.
NextTimed == UserAction(StoreCfg) \/ MethodStep \/ OnloadStep \/ Tick

SpecTimed == Init /\ [][NextTimed]_vars

(***************************************************************************)
(* Properties.                                                             *)
(***************************************************************************)
\* onload has returned.
Loaded == \A o \in OpIds : ops[o].kind # "onload"

\* The profile of the list that the backup metadata names.
BackupSource ==
  getProfileById(settings.profiles, settings.backup[1].sourceProfileId)

\* C1 (Spec): backup round trip.  When activateProfile(P) has succeeded
\* from the target content C and revertBackup is called next, with nothing
\* in between: the restore button is there, the backup metadata is set and
\* the backup file holds C, so that the read of revertBackup returns C; what
\* revertBackup writes is C; and when it has succeeded the target content is
\* C again.
C1_BackupRoundTrip ==
  /\ hist.kind = "activate" /\ Idle =>
       /\ settings.backup # <<>>
       /\ rendered.backup
       /\ RestoreButton \notin disabled
  /\ hist.kind = "activate" =>
       /\ backupFile = hist.pre
       /\ backupFile # NoData
       /\ \A o \in OpIds :
            /\ ops[o].kind = "revert" /\ ops[o].pc = "writeTarget" => ops[o].data = hist.pre
            /\ ops[o].kind = "revert" /\ ops[o].pc = "save" => target = hist.pre
  /\ hist.kind = "revert" => target = hist.pre

\* The restore has succeeded right after an activation that had changed the
\* target: the profile's content differs from the restored one.
C1_Witness ==
  /\ Idle
  /\ hist.kind = "revert"
  /\ settings.backup # <<>>
  /\ BackupSource # 0
  /\ profileFiles[settings.profiles[BackupSource].filename] # target

\* C2 (Spec): in every execution of activateProfile the target is written
\* only at the write that follows readProfileData, when the backup file
\* holds the content the target had before the activation (it has been read
\* and written to the backup); until then the target is as it was at the
\* call, and an activation that ends at the read of the target or at the
\* write of the backup leaves it so.
C2_BackupBeforeTarget ==
  [][\A o \in OpIds : ops[o].kind = "activate" =>
       /\ ops[o].pc # "save" => target = ops[o].pre
       /\ target' # target =>
            /\ ops[o].pc = "writeTarget"
            /\ settings.backup # <<>>
            /\ backupFile = ops[o].pre
       /\ ops[o].pc \in {"readTarget", "writeBackup"} /\ ops'[o].kind = "idle" =>
            /\ target' = ops[o].pre
            /\ hist'.kind = "none"]_vars

\* An activation has written a target that differs from the one before it,
\* which the backup file holds.
C2_Witness ==
  \E o \in OpIds :
    /\ ops[o].kind = "activate" /\ ops[o].pc = "save"
    /\ target # ops[o].pre
    /\ backupFile = ops[o].pre

\* C3 (SpecNaming): from a list with distinct names and file names (the
\* empty one of a first start), in every state that operations run one
\* after another reach, no two profiles of the list have names that are
\* equal ignoring case, and no two have file names that are equal ignoring
\* case.
C3_NamesAndFilenamesUnique ==
  Loaded =>
    \A i, j \in DOMAIN settings.profiles :
      i # j =>
        /\ toLowerCase(settings.profiles[i].name) # toLowerCase(settings.profiles[j].name)
        /\ toLowerCase(settings.profiles[i].filename)
             # toLowerCase(settings.profiles[j].filename)

\* Three profiles, of which one was created as "work" next to "Work" and two
\* have names of the same slug.
C3_Witness ==
  /\ Idle
  /\ Len(settings.profiles) = 3
  /\ \E i, j \in DOMAIN settings.profiles :
       /\ i # j
       /\ settings.profiles[i].name = StrWork
       /\ settings.profiles[j].name = StrWorkLower \o <<" ", "(", "2", ")">>
  /\ \E i, j \in DOMAIN settings.profiles :
       /\ i # j
       /\ slugify(settings.profiles[i].name) = slugify(settings.profiles[j].name)

\* The strings of the scenario: the names "Work (2)" and "Work (3)", the
\* file names work.json, work-2.json and work-3.json.
StrWorkTwo == <<"W", "o", "r", "k", " ", "(", "2", ")">>
StrWorkThree == <<"W", "o", "r", "k", " ", "(", "3", ")">>
StrWorkJson == <<"w", "o", "r", "k", ".", "j", "s", "o", "n">>
StrWorkTwoJson == <<"w", "o", "r", "k", "-", "2", ".", "j", "s", "o", "n">>
StrWorkThreeJson == <<"w", "o", "r", "k", "-", "3", ".", "j", "s", "o", "n">>

\* X followed by " (n)".
Suffixed(base, n) == base \o <<" ", "(">> \o NumToStr(n) \o <<")">>

\* A profile of the list has the name, ignoring case.
NameTaken(name) ==
  \E i \in DOMAIN settings.profiles :
    toLowerCase(settings.profiles[i].name) = toLowerCase(name)

\* The list holds what creations of the base name alone, from the empty
\* list, would have left: X, X (2), X (3), ... in that order.
CreatedInARow(base) ==
  \A i \in DOMAIN settings.profiles :
    settings.profiles[i].name = IF i = 1 THEN base ELSE Suffixed(base, i)

\* C4 (SpecNaming): collision resolution is deterministic.  Where
\* createProfile resolves the base name X against the list: the resolved
\* name is X if no profile has it (ignoring case), otherwise X (n) for the
\* smallest n >= 2 that none has; on the list X, X (2), ..., X (k) that
\* creations of X have left it is X (k+1); and "Work" created next to the
\* first "Work" (work.json) gets the name "Work (2)" and the file name
\* work-2.json.
C4_CollisionResolution ==
  [][\A o \in OpIds :
       ops[o].kind = "create" /\ ops[o].pc = "ensure" /\ ops'[o].pc = "readTarget" =>
         LET base == ops[o].name
             resolved == ops'[o].meta.name
             k == Len(settings.profiles)
         IN /\ IF ~NameTaken(base) THEN resolved = base
               ELSE \E n \in 2..(k + 2) :
                      /\ resolved = Suffixed(base, n)
                      /\ ~NameTaken(resolved)
                      /\ \A m \in 2..(n - 1) : NameTaken(Suffixed(base, m))
            /\ CreatedInARow(base) =>
                 resolved = IF k = 0 THEN base ELSE Suffixed(base, k + 1)
            /\ (/\ base = StrWork
                /\ k = 1
                /\ settings.profiles[1].name = StrWork
                /\ settings.profiles[1].filename = StrWorkJson) =>
                 /\ resolved = StrWorkTwo
                 /\ ops'[o].meta.filename = StrWorkTwoJson]_vars

\* "Work" has been created three times from the empty list.
C4_Witness ==
  /\ Idle
  /\ Len(settings.profiles) = 3
  /\ [i \in 1..3 |-> settings.profiles[i].name] = <<StrWork, StrWorkTwo, StrWorkThree>>
  /\ [i \in 1..3 |-> settings.profiles[i].filename]
       = <<StrWorkJson, StrWorkTwoJson, StrWorkThreeJson>>

\* C5 (SpecNaming): renameProfile(P.id, P.name) changes nothing except
\* P.updatedAt.  Where renameProfile resolves a proposed name that is the
\* profile's own: no file is renamed, and the list is the one before but
\* for the updatedAt of P.
C5_RenameToOwnNameIsNoOp ==
  [][\A o \in OpIds :
       LET i == getProfileById(settings.profiles, ops[o].pid) IN
       (/\ ops[o].kind = "rename" /\ ops[o].pc = "ensure"
        /\ ops'[o] # ops[o]
        /\ i # 0
        /\ ops[o].name = settings.profiles[i].name) =>
         /\ ops'[o].pc = "save"
         /\ profileFiles' = profileFiles
         /\ settings'.profiles = [settings.profiles EXCEPT ![i].updatedAt = clock]]_vars

\* C6 (Spec): whenever no operation is in progress the registered commands
\* are exactly one command per profile of the list, with the profile's id
\* and its current name.
C6_CommandsMatchProfiles ==
  Idle =>
    /\ \A i \in DOMAIN settings.profiles :
         [id |-> settings.profiles[i].id, name |-> settings.profiles[i].name] \in commands
    /\ \A c \in commands :
         \E i \in DOMAIN settings.profiles :
           c.id = settings.profiles[i].id /\ c.name = settings.profiles[i].name
    /\ Cardinality(commands) = Len(settings.profiles)

\* The invocations in progress.
InProgress == {o \in OpIds : ops[o].kind # "idle"}

\* C7 (SpecConc), as the specification states it: no two operations are ever
\* interleaved; once one has started no other one starts until it has run
\* to completion.
C7_NoInterleaving == Cardinality(InProgress) <= 1

\* C7 (SpecConc), as the code has it: an action started from a button that
\* bindButton has bound is not started again from that button while it is
\* in progress: the button is disabled until the action ends, and no two
\* invocations in progress come from the same button of the settings tab as
\* it is drawn.
C7_ButtonNotReentered ==
  \A o \in OpIds :
    ops[o].live =>
      /\ ops[o].kind # "idle"
      /\ ops[o].btn \in disabled
      /\ \A p \in OpIds \ {o} : ops[p].live => ops[p].btn # ops[o].btn

\* Two actions started from two buttons are in progress at once.
C7_Witness ==
  \E o, p \in OpIds :
    /\ o # p
    /\ ops[o].live /\ ops[p].live
    /\ ops[o].pc \notin {"ensure", "confirm"}
    /\ ops[p].pc \notin {"ensure", "confirm"}

\* C8 (SpecDurable): whenever no operation is in progress, after an
\* operation has ended well or with a failure, the persisted settings equal
\* the settings in memory, the backup metadata in particular.
C8_PersistedEqualsMemory ==
  Idle => persisted = settings /\ persisted.backup = settings.backup

\* C9 (Spec): once onload has returned and no operation is in progress,
\* every profile of the list has its file in the profile directory.
C9_EveryProfileHasItsFile ==
  Idle =>
    \A i \in DOMAIN settings.profiles :
      settings.profiles[i].filename \in DOMAIN profileFiles

\* Two profiles and their files, after a call has failed.
C9_Witness ==
  /\ Idle
  /\ Len(settings.profiles) = 2
  /\ faults > 0
  /\ \A i \in DOMAIN settings.profiles :
       settings.profiles[i].filename \in DOMAIN profileFiles

\* C10 (Spec): a profile is never half-created.  In every execution of
\* createProfile the list changes only where the write of the profile's file
\* has ended well, by the new metadata being appended, the file holding what
\* was read from the target; the persisted settings change only after that,
\* to the list in memory; and a createProfile that ends at the read of the
\* target or at the write of the file leaves the list, in memory and
\* persisted, as it was.
C10_NeverHalfCreated ==
  [][\A o \in OpIds : ops[o].kind = "create" =>
       /\ settings' # settings =>
            /\ ops[o].pc = "writeProfile"
            /\ settings' = [settings EXCEPT !.profiles = Append(@, ops[o].meta)]
            /\ ops[o].meta.filename \in DOMAIN profileFiles'
            /\ profileFiles'[ops[o].meta.filename] = ops[o].data
       /\ persisted' # persisted =>
            /\ ops[o].pc = "save"
            /\ persisted' = settings
            /\ settings.profiles[Len(settings.profiles)] = ops[o].meta
            /\ ops[o].meta.filename \in DOMAIN profileFiles
       /\ ops[o].pc \in {"ensure", "readTarget", "writeProfile"} /\ ops'[o].kind = "idle" =>
            /\ settings' = settings
            /\ persisted' = persisted]_vars

\* The metadata is in the list in memory, its file is written, and the
\* persisted list does not hold it yet.
C10_Witness ==
  \E o \in OpIds :
    /\ ops[o].kind = "create" /\ ops[o].pc = "save"
    /\ settings.profiles[Len(settings.profiles)] = ops[o].meta
    /\ ops[o].meta.filename \in DOMAIN profileFiles
    /\ Len(persisted.profiles) < Len(settings.profiles)

\* C11 (Spec): after a successful deleteProfile(id) the list holds no
\* profile with the id and the profile's file is not in the profile
\* directory any more; activateProfile does not go past its lookup for an
\* id that is not in the list, and the call that throws the not-found error
\* writes neither the backup nor the target.
C11_DeleteThenNotFound ==
  [][/\ \A o \in OpIds :
          (/\ ops[o].kind = "delete" /\ ops[o].pc = "save"
           /\ ops'[o].kind = "idle" /\ thrown' = "none") =>
            /\ getProfileById(settings'.profiles, ops[o].pid) = 0
            /\ ops[o].path \notin DOMAIN profileFiles'
     /\ \A o \in OpIds :
          ops[o].kind = "idle" /\ ops'[o].kind = "activate" =>
            getProfileById(settings.profiles, ops'[o].pid) # 0
     /\ thrown' = "NotFound" /\ ops' = ops =>
          backupFile' = backupFile /\ target' = target]_vars

\* C12 (Spec): the reconciliation of onload removes exactly the profiles
\* whose backing file does not exist as a file: when pruneMissingProfiles
\* leaves its loop, the list is the loaded list restricted to the profiles
\* whose file exists, in the same order and with unchanged fields, and when
\* its save is done the persisted list is the pruned list.
C12_PruneExactlyMissing ==
  [][\A o \in OpIds :
       /\ (/\ ops[o].kind = "onload" /\ ops[o].pc = "prune"
           /\ ops'[o].pc # "prune") =>
            settings'.profiles =
              SelectSeq(settings.profiles,
                        LAMBDA profile : profile.filename \in DOMAIN profileFiles)
       /\ (/\ ops[o].kind = "onload" /\ ops[o].pc = "pruneSave"
           /\ ops'[o].pc = "backup") =>
            persisted'.profiles = settings.profiles]_vars

\* C13 (SpecCalls): revertBackup() called while no backup metadata is
\* recorded throws the no-backup error and does not go on to the read of the
\* backup: the call that throws it leaves the target, the backup file, the
\* profile files, the persisted settings and the settings in memory as they
\* were.
C13_RevertWithoutBackupWritesNothing ==
  [][/\ settings.backup = <<>> =>
          \A o \in OpIds : ops'[o].kind = "revert" => ops[o].kind = "revert"
     /\ thrown # "NoBackup" /\ thrown' = "NoBackup" =>
          /\ settings.backup = <<>>
          /\ UNCHANGED <<target, backupFile, profileFiles, persisted, settings, ops>>]_vars

C13_Witness ==
  /\ thrown = "NoBackup"
  /\ settings.backup = <<>> /\ persisted.backup = <<>>
  /\ Loaded /\ Idle

\* C14 (SpecTimed): updateProfile(P) called while the target's content
\* equals the content of P's file leaves every profile file with the content
\* it had, and changes nothing of the settings but P.updatedAt, which becomes
\* the time of the write; its other steps change neither the settings nor a
\* file; the file holds the target's content when it has written, so that a
\* second update in a row meets the same case and has the same result.
UpdateOf(o) == getProfileById(settings.profiles, ops[o].pid)

\* The step is one of operation o: its position changes, or it ends.
Moves(o) == <<ops'[o].kind, ops'[o].pc>> # <<ops[o].kind, ops[o].pc>>

C14_UpdateOfEqualContent ==
  [][\A o \in OpIds :
       ops[o].kind = "update" /\ Moves(o) =>
         IF ops[o].pc = "writeProfile" /\ UpdateOf(o) # 0
         THEN LET i == UpdateOf(o)
                  profile == settings.profiles[i]
              IN /\ profileFiles'[profile.filename] = target'
                 /\ (/\ profile.filename \in DOMAIN profileFiles
                     /\ profileFiles[profile.filename] = ops[o].pre
                     /\ target = ops[o].pre) =>
                      /\ profileFiles' = profileFiles
                      /\ settings' = [settings EXCEPT !.profiles[i].updatedAt = clock]
                      /\ UNCHANGED <<target, backupFile, persisted, commands>>
         ELSE /\ UNCHANGED <<settings, profileFiles, target, backupFile, commands>>
              /\ persisted' # persisted => persisted' = settings]_vars

\* An update has written while the target's content was the content of the
\* file, and the time of the profile has changed: the settings that are
\* about to be saved differ from the saved ones in updatedAt.
C14_Witness ==
  \E o \in OpIds :
    /\ ops[o].kind = "update" /\ ops[o].pc = "save" /\ UpdateOf(o) # 0
    /\ LET profile == settings.profiles[UpdateOf(o)]
       IN /\ profileFiles[profile.filename] = "c1"
          /\ target = "c1" /\ ops[o].pre = "c1"
          /\ profile.updatedAt = 1
          /\ persisted.profiles[UpdateOf(o)].updatedAt = 0
          /\ persisted.profiles[UpdateOf(o)].createdAt = profile.createdAt

StrPersonalJson == <<"p", "e", "r", "s", "o", "n", "a", "l", ".", "j", "s", "o", "n">>

\* The step in which renameProfile of operation o has its name and file
\* name assigned (lines 165-167), after the file is moved where it is.
RenameAssigned(o) ==
  ops[o].kind = "rename" /\ ops[o].pc # "save" /\ ops'[o].kind = "rename" /\ ops'[o].pc = "save"

\* The file names of the profiles other than the one at position i, in
\* lower case.
OtherFilenames(i) ==
  {toLowerCase(settings.profiles[j].filename) : j \in DOMAIN settings.profiles \ {i}}

\* stem.json for n = 1, stem-n.json otherwise.
NumberedFile(stem, n) ==
  IF n = 1 THEN stem \o StrJson ELSE stem \o <<"-">> \o NumToStr(n) \o StrJson

\* C15 as the specification states it (SpecRename): a renameProfile to a
\* different name keeps id and createdAt, sets the file name to the slug of
\* the resolved name plus .json, and moves the file: the content of the old
\* path is at the new path and the old path is gone.
C15_RenameMovesToSlug ==
  [][\A o \in OpIds :
       RenameAssigned(o) =>
         LET i == getProfileById(settings.profiles, ops[o].pid)
             old == settings.profiles[i]
             new == settings'.profiles[i]
         IN new.name # old.name =>
              /\ new.id = old.id /\ new.createdAt = old.createdAt
              /\ new.filename = sanitizeFileName(new.name) \o StrJson
              /\ old.filename \notin DOMAIN profileFiles'
              /\ new.filename \in DOMAIN profileFiles'
              /\ profileFiles'[new.filename] = profileFiles[old.filename]]_vars

\* C15, amended (SpecRename): a renameProfile to a different name keeps id
\* and createdAt and leaves the other profiles as they are; the file name
\* becomes slug.json, slug being the slug of the resolved name, when no
\* other profile has that file name, and otherwise slug-n.json for the
\* smallest n >= 2 that no other profile has; when the file name changes
\* the file is moved (the content of the old path is at the new path, the
\* old path is gone, the other files are untouched), and when it does not
\* no file is touched; "Work (2)" renamed to "Personal" while no other
\* profile has personal.json gets personal.json.
C15_RenameMovesToFreeSlug ==
  [][\A o \in OpIds :
       RenameAssigned(o) =>
         LET i == getProfileById(settings.profiles, ops[o].pid)
             old == settings.profiles[i]
             new == settings'.profiles[i]
             slug == sanitizeFileName(new.name)
             k == Len(settings.profiles)
         IN new.name # old.name =>
              /\ new.id = old.id /\ new.createdAt = old.createdAt
              /\ Len(settings'.profiles) = k
              /\ \A j \in DOMAIN settings.profiles \ {i} :
                   settings'.profiles[j] = settings.profiles[j]
              /\ \E n \in 1..(k + 1) :
                   /\ new.filename = NumberedFile(slug, n)
                   /\ new.filename \notin OtherFilenames(i)
                   /\ \A m \in 1..(n - 1) : NumberedFile(slug, m) \in OtherFilenames(i)
              /\ IF new.filename # old.filename
                 THEN /\ old.filename \notin DOMAIN profileFiles'
                      /\ DOMAIN profileFiles'
                           = (DOMAIN profileFiles \ {old.filename}) \cup {new.filename}
                      /\ profileFiles'[new.filename] = profileFiles[old.filename]
                      /\ \A f \in DOMAIN profileFiles \ {old.filename, new.filename} :
                           profileFiles'[f] = profileFiles[f]
                 ELSE profileFiles' = profileFiles
              /\ (/\ old.name = StrWorkTwo /\ new.name = StrPersonal
                  /\ StrPersonalJson \notin OtherFilenames(i)) =>
                   new.filename = StrPersonalJson]_vars

\* "Personal" has been renamed to "Work!" next to "Work": its id is still
\* personal, its file is work-2.json, and personal.json is gone.
C15_Witness ==
  /\ Idle
  /\ \E i \in DOMAIN settings.profiles :
       /\ settings.profiles[i].id = toLowerCase(StrPersonal)
       /\ settings.profiles[i].name = StrWorkBang
       /\ settings.profiles[i].filename = StrWorkTwoJson
  /\ StrWorkTwoJson \in DOMAIN profileFiles
  /\ StrPersonalJson \notin DOMAIN profileFiles

\* C16 (Spec): there is one backup slot.  Where activateProfile(P) has
\* written its backup, the backup file holds the content the target had at
\* the call and the metadata is the one record that names P by id and name,
\* whatever backup there was; and where activateProfile(P) ends
\* successfully, the backup file still holds that content and the metadata,
\* in memory and persisted, names P.
C16_SingleBackupSlot ==
  [][\A o \in OpIds :
       ops[o].kind = "activate" =>
         LET i == getProfileById(settings.profiles, ops[o].pid) IN
         /\ ops[o].pc = "writeBackup" /\ ops'[o].pc = "readProfile" =>
              /\ i # 0
              /\ backupFile' = ops[o].pre
              /\ Len(settings'.backup) = 1
              /\ settings'.backup[1].sourceProfileId = ops[o].pid
              /\ settings'.backup[1].sourceProfileName = settings.profiles[i].name
         /\ ops[o].pc = "save" /\ ops'[o].kind = "idle" /\ thrown' = "none" =>
              /\ i # 0
              /\ backupFile' = ops[o].pre
              /\ Len(settings'.backup) = 1
              /\ settings'.backup[1].sourceProfileId = ops[o].pid
              /\ settings'.backup[1].sourceProfileName = settings'.profiles[i].name
              /\ persisted'.backup = settings'.backup]_vars

\* "Work (2)" has been activated where the backup named "Work": the backup
\* that is recorded and persisted names "Work (2)", and its file holds the
\* target of before.
C16_Witness ==
  /\ Idle
  /\ hist.kind = "activate"
  /\ settings.backup # <<>>
  /\ settings.backup[1].sourceProfileName = StrWorkTwo
  /\ persisted.backup = settings.backup
  /\ backupFile = hist.pre
  /\ backupFile # target

\* C17 (Spec): revertBackup with backup metadata recorded.  It is started
\* only with metadata.  When the read of the backup file succeeds, the
\* content read is the file's, it is written to the target, and where the
\* call ends successfully the target holds the content of the backup file,
\* the file is as it was and the metadata is intact, in memory and
\* persisted (so that a second revertBackup meets the same case and writes
\* the same content).  When the read fails, the metadata becomes null and
\* the target is left; where the save that follows is done, null is
\* persisted and the call throws the backup-missing error, the target being
\* the one of the call.
C17_RevertKeepsOrClearsReference ==
  [][\A o \in OpIds :
       /\ ops[o].kind = "idle" /\ ops'[o].kind = "revert" => settings.backup # <<>>
       /\ ops[o].kind = "revert" /\ Moves(o) =>
            /\ ops[o].pc = "readBackup" /\ ops'[o].pc = "writeTarget" =>
                 /\ ops'[o].data = backupFile
                 /\ UNCHANGED <<settings, persisted, target, backupFile>>
            /\ ops[o].pc = "writeTarget" /\ ops'[o].pc = "save" =>
                 /\ target' = backupFile
                 /\ UNCHANGED <<settings, backupFile>>
            /\ ops[o].pc = "save" /\ ops'[o].kind = "idle" /\ thrown' = "none" =>
                 /\ target' = backupFile'
                 /\ backupFile' = backupFile
                 /\ settings'.backup # <<>>
                 /\ settings' = settings
                 /\ persisted'.backup = settings.backup
            /\ ops[o].pc = "readBackup" /\ ops'[o].pc = "saveCleared" =>
                 /\ settings'.backup = <<>>
                 /\ settings'.profiles = settings.profiles
                 /\ target' = ops[o].pre
                 /\ UNCHANGED <<target, backupFile, profileFiles>>
            /\ ops[o].pc = "saveCleared" /\ ops'[o].kind = "idle" =>
                 /\ settings'.backup = <<>>
                 /\ target' = ops[o].pre
                 /\ thrown' # "none"
                 /\ persisted' # persisted \/ thrown' = "BackupMissing" =>
                      /\ thrown' = "BackupMissing"
                      /\ persisted'.backup = <<>>
                      /\ persisted' = settings]_vars

\* The read of a backup file that is there has failed: the call has thrown
\* the backup-missing error, no backup is recorded in memory or in the
\* persisted settings, and the file and the target are as they were.
C17_Witness ==
  /\ Idle /\ Loaded
  /\ thrown = "BackupMissing"
  /\ settings.backup = <<>> /\ persisted.backup = <<>>
  /\ backupFile # NoData
  /\ target # backupFile
  /\ faults = 1

\* C18 (Spec): activateProfile(P) whose read of P's file fails.  The read
\* goes on to the write of the target only with the content of a file that
\* is there; where it fails, the call throws the error of the read and is
\* over (nothing of it is left to run again), the target holds the content
\* it had at the call, and the backup this call has written stays: the file
\* holds that same content and the metadata names P.
C18_FailedProfileReadLeavesTarget ==
  [][\A o \in OpIds :
       ops[o].kind = "activate" /\ ops[o].pc = "readProfile" /\ Moves(o) =>
         LET i == getProfileById(settings.profiles, ops[o].pid) IN
         IF ops'[o].kind = "idle"
         THEN /\ thrown' = "ProfileFileMissing"
              /\ ops'[o] = IdleOp
              /\ hist'.kind = "none"
              /\ target' = ops[o].pre
              /\ backupFile' = ops[o].pre
              /\ settings'.backup # <<>>
              /\ settings'.backup[1].sourceProfileId = ops[o].pid
              /\ UNCHANGED <<target, backupFile, settings, persisted, profileFiles, commands>>
         ELSE /\ ops'[o].pc = "writeTarget"
              /\ i # 0
              /\ settings.profiles[i].filename \in DOMAIN profileFiles
              /\ ops'[o].data = profileFiles[settings.profiles[i].filename]
              /\ UNCHANGED <<target, backupFile, settings>>]_vars

\* An activation has failed at the read of the profile's file: the error is
\* the one of the call that has just ended, the target is the one of
\* before, and the backup file holds its content.
C18_Witness ==
  /\ Idle /\ Loaded
  /\ thrown = "ProfileFileMissing"
  /\ settings.backup # <<>>
  /\ backupFile = target
  /\ BackupSource # 0

\* C19 (SpecCalls): renameProfile(id, newName), once ensureStorageFolder is
\* done: with an id that no profile has it throws the not-found error,
\* whatever the name; with the id of a profile and a name that is empty
\* after trimming it throws the empty-name error; in both cases the call is
\* over and the list, the profile files, the persisted settings and the
\* commands are as they were; otherwise it goes on.
C19_RenameRejectsBeforeChange ==
  [][\A o \in OpIds :
       ops[o].kind = "rename" /\ ops[o].pc = "ensure" /\ Moves(o) =>
         LET known == \E i \in DOMAIN settings.profiles :
                        settings.profiles[i].id = ops[o].pid
             blank == \A i \in DOMAIN ops[o].name : ops[o].name[i] = " "
         IN IF ~known \/ blank
            THEN /\ ops'[o].kind = "idle"
                 /\ thrown' = IF ~known THEN "NotFound" ELSE "EmptyName"
                 /\ UNCHANGED <<settings, profileFiles, persisted, commands,
                                target, backupFile>>
            ELSE ops'[o].kind = "rename" /\ thrown' = "none"]_vars

\* A rename with a blank name has been refused: the error is the one of the
\* call that has just ended, and the settings are the persisted ones.
C19_Witness ==
  /\ Idle /\ Loaded
  /\ thrown = "EmptyName"
  /\ settings.profiles # <<>>
  /\ persisted = settings
  /\ commands = registerProfileCommands(settings.profiles)

\* C20 (Spec): createProfile whose read of the target configuration fails
\* throws the source-unavailable error and has added nothing.  Until the
\* read has answered, createProfile changes neither the list nor a profile
\* file, the persisted settings or the commands; where the read fails, the
\* call is over with that error and all of these are as they were.
C20_FailedSourceReadAddsNothing ==
  [][\A o \in OpIds :
       ops[o].kind = "create" /\ Moves(o) =>
         /\ ops[o].pc \in {"ensure", "readTarget"} =>
              UNCHANGED <<settings, profileFiles, persisted, commands, target, backupFile>>
         /\ ops[o].pc = "readTarget" =>
              IF ops'[o].kind = "idle"
              THEN /\ thrown' = "SourceUnavailable"
                   /\ ops'[o] = IdleOp
                   /\ profileFiles' = profileFiles
                   /\ getProfileById(settings'.profiles, ops[o].meta.id) = 0
                   /\ commands' = commands
              ELSE /\ ops'[o].pc = "writeProfile"
                   /\ ops'[o].data = target]_vars

\* A creation has failed at the read of the target configuration: the
\* error is the one of the call that has just ended; the list, the
\* persisted list and the commands hold the one profile of before, and the
\* profile directory its one file.
C20_Witness ==
  /\ Idle /\ Loaded
  /\ thrown = "SourceUnavailable"
  /\ Len(settings.profiles) = 1
  /\ persisted.profiles = settings.profiles
  /\ commands = registerProfileCommands(settings.profiles)
  /\ DOMAIN profileFiles = {settings.profiles[1].filename}

\* The ids of a list, in its order.
Ids(profiles) == [i \in DOMAIN profiles |-> profiles[i].id]

\* base for n = 1, base-n otherwise.
NumberedId(base, n) == IF n = 1 THEN base ELSE base \o <<"-">> \o NumToStr(n)

\* C21 (SpecNaming): after every step the ids of the list are pairwise
\* distinct; the id that createProfile makes is the slug of the resolved
\* name when no profile has that id, and otherwise slug-n for the smallest
\* n >= 2 that no profile has; createProfile appends the profile with that
\* id; and no step of an update, a rename or an activation changes the ids
\* of the list.
C21_IdsDistinctAndStable ==
  [][/\ \A i, j \in DOMAIN settings'.profiles :
          i # j => settings'.profiles[i].id # settings'.profiles[j].id
     /\ \A o \in OpIds :
          /\ (ops[o].kind = "create" /\ ops[o].pc = "ensure"
              /\ ops'[o].pc = "readTarget") =>
               LET slug == sanitizeFileName(ops'[o].meta.name)
                   existing == Range(Ids(settings.profiles))
               IN \E n \in 1..(Len(settings.profiles) + 1) :
                    /\ ops'[o].meta.id = NumberedId(slug, n)
                    /\ ops'[o].meta.id \notin existing
                    /\ \A m \in 1..(n - 1) : NumberedId(slug, m) \in existing
          /\ (ops[o].kind = "create" /\ ops[o].pc = "writeProfile"
              /\ ops'[o].pc = "save") =>
               Ids(settings'.profiles) = Append(Ids(settings.profiles), ops[o].meta.id)
          /\ ops[o].kind \in {"update", "rename", "activate"} /\ Moves(o) =>
               Ids(settings'.profiles) = Ids(settings.profiles)]_vars

\* The profile work-2 has been deleted between work and work-3, and the
\* next creation has taken its id again.
C21_Witness ==
  /\ Idle
  /\ Ids(settings.profiles)
       = <<StrWorkLower, StrWorkLower \o <<"-", "3">>, StrWorkLower \o <<"-", "2">>>>

\* C22 (Spec): pruneMissingBackup of onload.  Where adapter.stat has been
\* asked for the backup file: when the file exists the metadata is kept as
\* it was loaded, and when it does not the metadata becomes null; where the
\* save that follows is done, null is persisted; and where onload ends,
\* metadata is recorded only if the backup file exists.
C22_BackupKeptIffFileExists ==
  [][\A o \in OpIds :
       ops[o].kind = "onload" /\ Moves(o) =>
         /\ ops[o].pc = "backupStat" =>
              IF backupFile # NoData
              THEN settings'.backup = settings.backup /\ settings'.backup # <<>>
              ELSE settings'.backup = <<>>
         /\ ops[o].pc = "backupSave" /\ ops'[o].kind = "idle" =>
              persisted'.backup = <<>> /\ settings'.backup = <<>>
         /\ ops'[o].kind = "idle" =>
              (settings'.backup # <<>> => backupFile' # NoData)]_vars

\* C23 (SpecConc): createProfile invocations that overlap at their awaits
\* leave profiles that differ in id, name and file name.  Where
\* createProfile appends its metadata, no profile of the list has the id,
\* the name (ignoring case) or the file name (ignoring case) of the new
\* one, and the file it has written is the new profile's alone.
C23_OverlappingCreatesDiffer ==
  [][\A o \in OpIds :
       (ops[o].kind = "create" /\ ops[o].pc = "writeProfile" /\ ops'[o].pc = "save") =>
         /\ \A i \in DOMAIN settings.profiles :
              /\ settings.profiles[i].id # ops[o].meta.id
              /\ toLowerCase(settings.profiles[i].name) # toLowerCase(ops[o].meta.name)
              /\ toLowerCase(settings.profiles[i].filename)
                   # toLowerCase(ops[o].meta.filename)
         /\ ops[o].meta.filename \in DOMAIN profileFiles'
         /\ \A i, j \in DOMAIN settings'.profiles :
              i # j => settings'.profiles[i].filename # settings'.profiles[j].filename]_vars

\* C24 (SpecOverlap): overlapping activations that both complete leave in
\* the backup file the content that the last write to the target has
\* overwritten.  Where an activation writes the target while every other
\* activation in progress has already written it (the write is the last of
\* the overlapping ones), the backup file holds the content that the target
\* has before this write.
C24_BackupOfLastOverwrite ==
  [][\A o \in OpIds :
       (/\ ops[o].kind = "activate" /\ ops[o].pc = "writeTarget"
        /\ ops'[o].pc = "save"
        /\ \A p \in OpIds \ {o} : ops[p].kind = "activate" => ops[p].pc = "save") =>
         backupFile = target]_vars

\* C25 (SpecTimed): the provenance of the backup stays accurate.  When the
\* backup names the id of a profile of the list, that profile is the one
\* whose activation has made the backup: it is not a profile that was
\* created after the backup was made.
C25_BackupSourceIsActivatedProfile ==
  Loaded /\ settings.backup # <<>> /\ BackupSource # 0 =>
    settings.profiles[BackupSource].createdAt <= settings.backup[1].createdAt

\* C26 (SpecModal): the deletion dialog reports its outcome exactly once.
\* Whatever events the dialog has seen (clicks on Cancel and on Delete and
\* closings, in every order), onResult has been called at most once; once
\* an event has happened it has been called exactly once; the value is true
\* exactly when the first event was the click on Delete, and false when the
\* dialog was closed first; and deleteProfile is running only when the
\* first event was the click on Delete.
C26_DialogAnswersOnce ==
  \A o \in OpIds :
    ops[o].kind = "delete" =>
      LET modal == ops[o].modal IN
      /\ Len(modal.calls) <= 1
      /\ modal.events > 0 => Len(modal.calls) = 1
      /\ modal.calls = <<TRUE>> <=> modal.first = "confirm"
      /\ modal.first \in {"cancel", "close"} => modal.calls = <<FALSE>>
      /\ ops[o].pc # "confirm" => modal.first = "confirm" /\ modal.calls = <<TRUE>>

\* The dialog has seen MaxEvents events of which the first was the click
\* on Delete, and deleteProfile has removed the profile's file and entry.
C26_Witness ==
  \E o \in OpIds :
    /\ ops[o].kind = "delete" /\ ops[o].pc = "save"
    /\ ops[o].modal.events = MaxEvents
    /\ ops[o].modal.first = "confirm"
    /\ getProfileById(settings.profiles, ops[o].pid) = 0
    /\ ops[o].path \notin DOMAIN profileFiles

====
